---- MODULE Spec2Model ----
(***************************************************************************)
(* Signal-fusion and gating pipeline of the stock-market analysis agent:   *)
(* the market-context provider, the no-trade gate, the fusion engine with  *)
(* its trade-level calculator, the technical analyzer, and the             *)
(* orchestration in analyze_stock.                                         *)
(*                                                                         *)
(* Numbers are fixed-point integers:                                       *)
(*   index prices and index moving averages   whole points                 *)
(*   VIX values                               tenths       (25.0 = 250)    *)
(*   scores                                   hundredths   (0.3  = 30)     *)
(*   fusion weights                           1e-4         (0.3  = 3000)   *)
(*   combined score, contributions            1e-6         (0.3  = 300000) *)
(*   instrument prices, ATR, trade levels     1e-7         (see PU)        *)
(* The cache of the market-context provider and the technical analyzer     *)
(* have sections of their own, with their units.                           *)
(* A Python exception is a record whose kind names the exception.          *)
(***************************************************************************)
EXTENDS Integers, Sequences, FiniteSets, TLC

VARIABLES pc, enable_no_trade, config, market_context, no_trade_signal, inputs,
          trade_levels, recommendation, result

\* MarketContextAnalyzer and its callers: the clock, the market data the data
\* provider would return, _cache and _cache_time (each with the number of the
\* refresh that stored it), the refreshes so far and the calls in progress
VARIABLES callers, now, market, cache, cache_time, refreshes, call

engine_vars == <<pc, enable_no_trade, config, market_context, no_trade_signal, inputs,
                 trade_levels, recommendation, result>>

cache_vars == <<callers, now, market, cache, cache_time, refreshes, call>>

vars == <<engine_vars, cache_vars>>

None == [kind |-> "None"]

IsNone(x) == x.kind = "None"

Raised(name) == [kind |-> name]

\* a Python ValueError with its message
ValueError(message) == [kind |-> "ValueError", message |-> message]

(***************************************************************************)
(* Market context values                                                   *)
(***************************************************************************)
Trends == {"bullish", "neutral", "bearish"}

VixLevels == {"low", "moderate", "high", "very_high"}

MarketStates == {"bullish", "neutral", "bearish", "volatile"}

\* VIX values in tenths, on both sides of every threshold the code uses
VixValues == {120, 180, 200, 205, 250, 251, 280}

\* index prices and 50-day averages handed to the gate directly
GatePrices == {0, 9600, 9700, 10300}

GateDmas == {0, 10000}

MkContext(nt, bt, vl, ms, np, n20, n50, bp, b20, b50, vv, q, f) ==
    [kind |-> "MarketContext",
     nifty_trend |-> nt, banknifty_trend |-> bt, vix_level |-> vl,
     market_state |-> ms,
     nifty_price |-> np, nifty_20dma |-> n20, nifty_50dma |-> n50,
     banknifty_price |-> bp, banknifty_20dma |-> b20, banknifty_50dma |-> b50,
     vix_value |-> vv,
     market_signal_quality |-> q, market_favorability |-> f]

(***************************************************************************)
(* Market context provider                                                 *)
(***************************************************************************)
VIX_LOW == 150

VIX_MODERATE == 200

VIX_HIGH == 250

\* the value _fetch_vix returns when the fetch fails (18.0)
VixFallback == 180

\* _fetch_index_data: fetch is "error" or the fetched stock data, of which the
\* model keeps the current price, the number of historical points and the
\* averages of the last 20 and 50 closes
fetch_index_data(fetch) ==
    IF fetch.kind = "error"
    THEN [price |-> 0, ma_20 |-> 0, ma_50 |-> 0]
    ELSE IF fetch.points >= 50
    THEN [price |-> fetch.price, ma_20 |-> fetch.avg20, ma_50 |-> fetch.avg50]
    ELSE IF fetch.points >= 20
    THEN [price |-> fetch.price, ma_20 |-> fetch.avg20, ma_50 |-> fetch.avg20]
    ELSE [price |-> fetch.price, ma_20 |-> fetch.price, ma_50 |-> fetch.price]

fetch_vix(fetch) == IF fetch.kind = "error" THEN VixFallback ELSE fetch.price

determine_trend(price, ma_20, ma_50) ==
    IF price = 0 \/ ma_20 = 0 \/ ma_50 = 0 THEN "neutral"
    ELSE IF price > ma_20 /\ price > ma_50 THEN "bullish"
    ELSE IF price < ma_20 /\ price < ma_50 THEN "bearish"
    ELSE "neutral"

determine_vix_level(vix) ==
    IF vix < VIX_LOW THEN "low"
    ELSE IF vix < VIX_MODERATE THEN "moderate"
    ELSE IF vix < VIX_HIGH THEN "high"
    ELSE "very_high"

\* faulty variant: only a very high VIX overrides the trends
determine_market_state_VeryHighOnly(nifty_trend, banknifty_trend, vix_level) ==
    IF vix_level = "very_high" THEN "volatile"
    ELSE IF nifty_trend = "bullish" /\ banknifty_trend = "bullish" THEN "bullish"
    ELSE IF nifty_trend = "bearish" /\ banknifty_trend = "bearish" THEN "bearish"
    ELSE "neutral"

determine_market_state(nifty_trend, banknifty_trend, vix_level) ==
    IF vix_level \in {"high", "very_high"} THEN "volatile"
    ELSE IF nifty_trend = "bullish" /\ banknifty_trend = "bullish" THEN "bullish"
    ELSE IF nifty_trend = "bearish" /\ banknifty_trend = "bearish" THEN "bearish"
    ELSE "neutral"

Abs(x) == IF x < 0 THEN -x ELSE x

MinOf(a, b) == IF a < b THEN a ELSE b

MaxOf(a, b) == IF a > b THEN a ELSE b

\* _calculate_signal_quality in units of 1e-4; the two relative distances are
\* kept to 1e-4 (rounded down), the rest is exact.  The volume argument is
\* never read.
calculate_signal_quality(np, n20, n50, bp, b20, b50) ==
    LET distance_part ==
            IF n20 > 0 /\ n50 > 0
            THEN LET d20 == (Abs(np - n20) * 10000) \div n20
                     d50 == (Abs(np - n50) * 10000) \div n50
                     \* min(1.0, avg_distance / 0.05) * 0.4
                     distance_score == MinOf(10000, ((d20 + d50) \div 2) * 20)
                 IN  (distance_score * 4) \div 10
            ELSE 2000
        volume_part == 1400
        nifty_trend == determine_trend(np, n20, n50)
        banknifty_trend == determine_trend(bp, b20, b50)
        consistency_score ==
            IF nifty_trend = banknifty_trend
            THEN IF nifty_trend \in {"bullish", "bearish"} THEN 100 ELSE 60
            ELSE 30
        quality_score == distance_part + volume_part + consistency_score * 40
    IN  MinOf(10000, MaxOf(0, quality_score))

\* _calculate_favorability in units of 1e-4
\* faulty variant: the ceiling for a bearish market is left out
calculate_favorability_NoCeiling(market_state, vix_level, nifty_trend, banknifty_trend) ==
    LET base_score == IF market_state = "bullish" THEN 85
                      ELSE IF market_state = "neutral" THEN 55
                      ELSE IF market_state = "bearish" THEN 30
                      ELSE 35
        vix_score == IF vix_level = "low" THEN 90
                     ELSE IF vix_level = "moderate" THEN 70
                     ELSE IF vix_level = "high" THEN 40
                     ELSE 20
        breadth_score ==
            IF nifty_trend = "bullish" /\ banknifty_trend = "bullish" THEN 100
            ELSE IF nifty_trend = "bearish" /\ banknifty_trend = "bearish" THEN 20
            ELSE 50
        f0 == base_score * 60 + vix_score * 25 + breadth_score * 15
        f2 == IF vix_level = "very_high" THEN MinOf(f0, 2500) ELSE f0
        f3 == IF market_state = "bullish" THEN MaxOf(f2, 7000) ELSE f2
    IN  MinOf(10000, MaxOf(0, f3))

calculate_favorability(market_state, vix_level, nifty_trend, banknifty_trend) ==
    LET base_score == IF market_state = "bullish" THEN 85
                      ELSE IF market_state = "neutral" THEN 55
                      ELSE IF market_state = "bearish" THEN 30
                      ELSE 35
        vix_score == IF vix_level = "low" THEN 90
                     ELSE IF vix_level = "moderate" THEN 70
                     ELSE IF vix_level = "high" THEN 40
                     ELSE 20
        breadth_score ==
            IF nifty_trend = "bullish" /\ banknifty_trend = "bullish" THEN 100
            ELSE IF nifty_trend = "bearish" /\ banknifty_trend = "bearish" THEN 20
            ELSE 50
        f0 == base_score * 60 + vix_score * 25 + breadth_score * 15
        f1 == IF market_state = "bearish" THEN MinOf(f0, 4000) ELSE f0
        f2 == IF vix_level = "very_high" THEN MinOf(f1, 2500) ELSE f1
        f3 == IF market_state = "bullish" THEN MaxOf(f2, 7000) ELSE f2
    IN  MinOf(10000, MaxOf(0, f3))

\* the body of get_market_context after the cache check
compute_market_context(nifty_fetch, banknifty_fetch, vix_fetch) ==
    LET nifty_data == fetch_index_data(nifty_fetch)
        nifty_trend == determine_trend(nifty_data.price, nifty_data.ma_20, nifty_data.ma_50)
        banknifty_data == fetch_index_data(banknifty_fetch)
        banknifty_trend == determine_trend(banknifty_data.price, banknifty_data.ma_20,
                                           banknifty_data.ma_50)
        vix_value == fetch_vix(vix_fetch)
        vix_level == determine_vix_level(vix_value)
        market_state == determine_market_state(nifty_trend, banknifty_trend, vix_level)
    IN  MkContext(nifty_trend, banknifty_trend, vix_level, market_state,
                  nifty_data.price, nifty_data.ma_20, nifty_data.ma_50,
                  banknifty_data.price, banknifty_data.ma_20, banknifty_data.ma_50,
                  vix_value,
                  calculate_signal_quality(nifty_data.price, nifty_data.ma_20,
                                           nifty_data.ma_50, banknifty_data.price,
                                           banknifty_data.ma_20, banknifty_data.ma_50),
                  calculate_favorability(market_state, vix_level, nifty_trend,
                                         banknifty_trend))

(***************************************************************************)
(* No-trade gate                                                           *)
(***************************************************************************)
vix_spike_threshold == 250

\* nifty_drop_threshold = 0.03, as a percentage
nifty_drop_threshold == 3

MkSignal(nt, rs, act, sev) ==
    [kind |-> "NoTradeSignal", is_no_trade |-> nt, reasons |-> rs,
     suggested_action |-> act, severity |-> sev]

\* Check 1: market is bearish and the VIX level is high or very high
Check1(mc) == mc.market_state = "bearish" /\ mc.vix_level \in {"high", "very_high"}

\* Check 2: (nifty_price - nifty_50dma) / nifty_50dma < -nifty_drop_threshold
\* (the caller has excluded nifty_50dma = 0, where the division raises)
Check2(mc) ==
    IF mc.nifty_50dma > 0
    THEN (mc.nifty_price - mc.nifty_50dma) * 100 < -(nifty_drop_threshold * mc.nifty_50dma)
    ELSE (mc.nifty_price - mc.nifty_50dma) * 100 > -(nifty_drop_threshold * mc.nifty_50dma)

\* Check 3: VIX value above the spike threshold
Check3(mc) == mc.vix_value > vix_spike_threshold

\* faulty variant: check 4 without its volatility condition
Check4_AnyVix(mc) == mc.nifty_trend = "bearish" /\ mc.banknifty_trend = "bearish"

\* Check 4: both indices bearish with elevated volatility
Check4(mc) ==
    /\ mc.nifty_trend = "bearish"
    /\ mc.banknifty_trend = "bearish"
    /\ mc.vix_level \in {"moderate", "high", "very_high"}

\* Check 5: volatile market state with VIX above 20
Check5(mc) == mc.market_state = "volatile" /\ mc.vix_value > 200

\* faulty variant: a medium rule assigns its severity unconditionally
RaiseToMedium_Always(sev) == "medium"

\* "if severity == 'low': severity = 'medium'"
RaiseToMedium(sev) == IF sev = "low" THEN "medium" ELSE sev

\* the five checks in source order, threading (reasons, severity)
GateRules(mc) ==
    LET r0 == <<>>
        s0 == "low"
        r1 == IF Check1(mc) THEN Append(r0, "bearish_volatile") ELSE r0
        s1 == IF Check1(mc) THEN "high" ELSE s0
        r2 == IF Check2(mc) THEN Append(r1, "nifty_below_50dma") ELSE r1
        s2 == IF Check2(mc) THEN RaiseToMedium(s1) ELSE s1
        r3 == IF Check3(mc) THEN Append(r2, "vix_spike") ELSE r2
        s3 == IF Check3(mc) THEN "high" ELSE s2
        r4 == IF Check4(mc) THEN Append(r3, "indices_bearish") ELSE r3
        s4 == IF Check4(mc) THEN RaiseToMedium(s3) ELSE s3
        r5 == IF Check5(mc) THEN Append(r4, "volatile_state") ELSE r4
        s5 == IF Check5(mc) THEN RaiseToMedium(s4) ELSE s4
    IN  [reasons |-> r5, severity |-> s5]

SuggestedAction(is_no_trade, severity) ==
    IF is_no_trade
    THEN IF severity = "high" THEN "stay_in_cash" ELSE "extreme_caution"
    ELSE "remain_vigilant"

\* faulty variant: the enable_no_trade flag is never consulted
check_market_conditions_NoFlag(enabled, mc) ==
    IF IsNone(mc)
    THEN MkSignal(FALSE, <<"no_market_context">>, "proceed_with_caution", "low")
    ELSE IF mc.nifty_50dma = 0
    THEN Raised("ZeroDivisionError")
    ELSE LET g == GateRules(mc)
             is_no_trade == Len(g.reasons) > 0 /\ g.severity \in {"high", "medium"}
         IN  MkSignal(is_no_trade, g.reasons,
                      SuggestedAction(is_no_trade, g.severity), g.severity)

check_market_conditions(enabled, mc) ==
    IF ~enabled
    THEN MkSignal(FALSE, <<>>, "trading_enabled", "low")
    ELSE IF IsNone(mc)
    THEN MkSignal(FALSE, <<"no_market_context">>, "proceed_with_caution", "low")
    ELSE IF mc.nifty_50dma = 0
    THEN Raised("ZeroDivisionError")
    ELSE LET g == GateRules(mc)
             is_no_trade == Len(g.reasons) > 0 /\ g.severity \in {"high", "medium"}
         IN  MkSignal(is_no_trade, g.reasons,
                      SuggestedAction(is_no_trade, g.severity), g.severity)

(***************************************************************************)
(* Trade-level calculator                                                  *)
(***************************************************************************)
\* price units per 1.00 and per 0.01: seven decimals hold every product of
\* the calculator exactly when its inputs are whole cents
CENT == 10 ^ 5

PU == 100 * CENT

Max(S) == CHOOSE x \in S : \A y \in S : y <= x

Min(S) == CHOOSE x \in S : \A y \in S : x <= y

\* x * num / den, rounded down, without leaving 32 bits
Times(x, num, den) == (x \div den) * num + ((x % den) * num) \div den

\* Python round(x, 2) of a price: the nearest cent, ties to the even cent
Round2(x) ==
    LET q == x \div CENT
        r == x % CENT
    IN  IF 2 * r > CENT \/ (2 * r = CENT /\ q % 2 = 1) THEN q + 1 ELSE q

\* round(a / b) to the nearest integer, ties to even
RoundDiv(a, b) ==
    LET q == a \div b
        r == a % b
    IN  IF 2 * r > b \/ (2 * r = b /\ q % 2 = 1) THEN q + 1 ELSE q

\* round(a / b, 2) in hundredths, by long division
RoundDiv2(a, b) ==
    LET q0 == a \div b
        r0 == a % b
        d1 == (r0 * 10) \div b
        r1 == (r0 * 10) % b
        d2 == (r1 * 10) \div b
        r2 == (r1 * 10) % b
        h  == q0 * 100 + d1 * 10 + d2
    IN  IF 2 * r2 > b \/ (2 * r2 = b /\ h % 2 = 1) THEN h + 1 ELSE h

MkTechnical(sup, res, atr, score) ==
    [support_levels |-> sup, resistance_levels |-> res, atr |-> atr,
     technical_score |-> score]

\* faulty variant: the entry ignores the support levels
IdealEntry_PriceOnly(current_price, technical) ==
    LET raw == Times(current_price, 98, 100)
        cap == Times(current_price, 99, 100)
    IN  IF raw < cap THEN raw ELSE cap

\* step 1: ideal entry
IdealEntry(current_price, technical) ==
    LET supports_below == {s \in technical.support_levels : s < current_price}
        raw == IF supports_below # {}
               THEN Times(Max(supports_below), 1005, 1000)
               ELSE Times(current_price, 98, 100)
        cap == Times(current_price, 99, 100)
    IN  IF raw < cap THEN raw ELSE cap

\* faulty variant: the stop is not held within 8% of the entry
StopLoss_NoFloor(ideal_entry, technical) ==
    LET atr_stop == IF technical.atr > 0
                    THEN ideal_entry - Times(technical.atr, 15, 10)
                    ELSE Times(ideal_entry, 95, 100)
        supports_below_entry == {s \in technical.support_levels : s < ideal_entry}
        support_stop == Times(Max(supports_below_entry), 995, 1000)
    IN  IF supports_below_entry # {} /\ support_stop > atr_stop
        THEN support_stop ELSE atr_stop

\* step 2: stop loss
StopLoss(ideal_entry, technical) ==
    LET atr_stop == IF technical.atr > 0
                    THEN ideal_entry - Times(technical.atr, 15, 10)
                    ELSE Times(ideal_entry, 95, 100)
        supports_below_entry == {s \in technical.support_levels : s < ideal_entry}
        support_stop == Times(Max(supports_below_entry), 995, 1000)
        stop_loss == IF supports_below_entry # {} /\ support_stop > atr_stop
                     THEN support_stop ELSE atr_stop
        min_stop == Times(ideal_entry, 92, 100)
    IN  IF stop_loss > min_stop THEN stop_loss ELSE min_stop

\* step 4: target, before the reward-to-risk check
RawTarget(ideal_entry, risk_per_share, technical) ==
    LET target == ideal_entry + 2 * risk_per_share
        resistances_above == {r \in technical.resistance_levels : r > ideal_entry}
        nearest_resistance == Min(resistances_above)
    IN  IF resistances_above = {} THEN target
        ELSE IF nearest_resistance > target
             THEN Times(nearest_resistance, 995, 1000)
        ELSE IF nearest_resistance < target
             THEN (IF Times(nearest_resistance, 102, 100) > target
                   THEN Times(nearest_resistance, 102, 100) ELSE target)
        ELSE target

\* step 5: "if risk_reward_ratio < 2.0: target = ideal_entry + risk * 2.0"
FinalTarget(ideal_entry, risk_per_share, raw_target) ==
    IF raw_target - ideal_entry < 2 * risk_per_share
    THEN ideal_entry + 2 * risk_per_share
    ELSE raw_target

\* faulty variant: the position size is not capped at 10%
PositionSizePercent_NoCap(ideal_entry, risk_per_share) ==
    RoundDiv(Times(ideal_entry, 15, 10), risk_per_share)

\* step 6: round(min(1.5 / (risk / entry * 100), 10.0), 2), in hundredths
PositionSizePercent(ideal_entry, risk_per_share) ==
    LET size_num == Times(ideal_entry, 15, 10)
    IN  IF size_num \div risk_per_share >= 1000 THEN 1000
        ELSE RoundDiv(size_num, risk_per_share)

\* TradeLevels.__post_init__ on the rounded fields (cents, hundredths)
TradeLevelsValid(tl) ==
    /\ tl.ideal_entry > 0
    /\ tl.stop_loss > 0
    /\ tl.target > 0
    /\ tl.stop_loss < tl.ideal_entry
    /\ tl.target > tl.ideal_entry
    /\ 0 <= tl.risk_per_trade_percent /\ tl.risk_per_trade_percent <= 150
    /\ tl.risk_reward_ratio >= 200

\* faulty variant: levels are computed for every action
calculate_trade_levels_AnyAction(current_price, technical, action) ==
    LET ideal_entry == IdealEntry(current_price, technical)
        stop_loss == StopLoss(ideal_entry, technical)
        risk_per_share == ideal_entry - stop_loss
        raw_target == RawTarget(ideal_entry, risk_per_share, technical)
        target == FinalTarget(ideal_entry, risk_per_share, raw_target)
        risk_reward_ratio == RoundDiv2(target - ideal_entry, risk_per_share)
        position_size_percent == PositionSizePercent(ideal_entry, risk_per_share)
        tl == [kind |-> "TradeLevels",
               ideal_entry |-> Round2(ideal_entry),
               stop_loss |-> Round2(stop_loss),
               target |-> Round2(target),
               risk_per_trade_percent |-> 150,
               risk_reward_ratio |-> risk_reward_ratio,
               position_size_percent |-> position_size_percent]
    IN  IF TradeLevelsValid(tl) THEN tl ELSE Raised("ValueError")

\* calculate_trade_levels; current_price > 0.  Fields of the result: prices in
\* cents, ratios and percentages in hundredths.
calculate_trade_levels(current_price, technical, action) ==
    IF action # "BUY"
    THEN ValueError("Trade levels currently only supported for BUY recommendations")
    ELSE
    LET ideal_entry == IdealEntry(current_price, technical)
        stop_loss == StopLoss(ideal_entry, technical)
        risk_per_share == ideal_entry - stop_loss
        raw_target == RawTarget(ideal_entry, risk_per_share, technical)
        target == FinalTarget(ideal_entry, risk_per_share, raw_target)
        risk_reward_ratio == RoundDiv2(target - ideal_entry, risk_per_share)
        position_size_percent == PositionSizePercent(ideal_entry, risk_per_share)
        tl == [kind |-> "TradeLevels",
               ideal_entry |-> Round2(ideal_entry),
               stop_loss |-> Round2(stop_loss),
               target |-> Round2(target),
               risk_per_trade_percent |-> 150,
               risk_reward_ratio |-> risk_reward_ratio,
               position_size_percent |-> position_size_percent]
    IN  IF TradeLevelsValid(tl) THEN tl ELSE Raised("ValueError")

(***************************************************************************)
(* Signal fusion engine                                                    *)
(***************************************************************************)
\* Configuration defaults, in hundredths; they sum to 1.0, so the
\* normalisation in RecommendationEngine.__init__ leaves them as they are
sentiment_weight == 5000

technical_weight == 3000

fundamental_weight == 2000

MkWeights(s, t, f, source) ==
    [sentiment |-> s, technical |-> t, fundamental |-> f, source |-> source]

\* the three analysis weights of a Configuration, in units of 1e-4
MkConfig(s, t, f) == [sentiment_weight |-> s, technical_weight |-> t,
                      fundamental_weight |-> f]

WeightSum(cfg) == cfg.sentiment_weight + cfg.technical_weight + cfg.fundamental_weight

\* Configuration.validate_weights
validate_weights(cfg) ==
    \A w \in {cfg.sentiment_weight, cfg.technical_weight, cfg.fundamental_weight} :
        0 <= w /\ w <= 10000

\* faulty variant: the weights are left as configured
normalize_weights_Skip(cfg) == cfg

\* Configuration.normalize_weights; the quotients are rounded to 1e-4
normalize_weights(cfg) ==
    LET total == WeightSum(cfg)
        Norm(w) == IF total > 0 THEN RoundDiv(w * 10000, total)
                   ELSE -RoundDiv(w * 10000, -total)
    IN  IF total = 0
        THEN MkConfig(sentiment_weight, technical_weight, fundamental_weight)
        ELSE IF total # 10000
        THEN MkConfig(Norm(cfg.sentiment_weight), Norm(cfg.technical_weight),
                      Norm(cfg.fundamental_weight))
        ELSE cfg

\* RecommendationEngine.__init__: normalise when a weight is outside [0, 1] or
\* the sum is more than 0.001 away from 1.0
RecommendationEngine_init(cfg) ==
    IF ~validate_weights(cfg) THEN normalize_weights(cfg)
    ELSE IF Abs(WeightSum(cfg) - 10000) > 10 THEN normalize_weights(cfg)
    ELSE cfg

\* Configuration.apply_recommended_weights
apply_recommended_weights(cfg) == normalize_weights(cfg)

get_dynamic_weights(mc) ==
    IF IsNone(mc)
    THEN MkWeights(config.sentiment_weight, config.technical_weight,
                   config.fundamental_weight, "static")
    ELSE IF mc.market_state = "bullish" THEN MkWeights(3000, 4000, 3000, "dynamic-bullish")
    ELSE IF mc.market_state = "neutral" THEN MkWeights(2500, 3500, 4000, "dynamic-neutral")
    ELSE IF mc.market_state = "bearish" THEN MkWeights(1500, 3500, 5000, "dynamic-bearish")
    ELSE IF mc.market_state = "volatile" THEN MkWeights(1500, 3500, 5000, "dynamic-volatile")
    ELSE MkWeights(config.sentiment_weight, config.technical_weight,
                   config.fundamental_weight, "static-fallback")

\* combined score in units of 1e-6.  It is the exact sum; the float sum of
\* the code can differ from it in the last bit, which shows only when the
\* exact sum lies on a threshold
CombinedScore(sentiment, technical, fundamental, weights) ==
    sentiment.sentiment_score * weights.sentiment
    + technical.technical_score * weights.technical
    + fundamental.fundamental_score * weights.fundamental

\* "if combined_score > 0.3 ... elif combined_score < -0.3 ... else"
ThresholdAction(combined_score) ==
    IF combined_score > 300000 THEN "BUY"
    ELSE IF combined_score < -300000 THEN "SELL"
    ELSE "HOLD"

\* faulty variant: the bearish downgrade uses the volatile threshold
adjust_for_market_context_Bearish05(action, combined_score, mc) ==
    IF mc.market_state = "volatile" /\ action = "BUY" /\ combined_score < 500000
    THEN "HOLD"
    ELSE IF mc.market_state = "volatile" /\ action = "SELL" /\ combined_score > -500000
    THEN "HOLD"
    ELSE IF mc.market_state = "bearish" /\ action = "BUY" /\ combined_score < 500000
    THEN "HOLD"
    ELSE action

adjust_for_market_context(action, combined_score, mc) ==
    IF mc.market_state = "volatile" /\ action = "BUY" /\ combined_score < 500000
    THEN "HOLD"
    ELSE IF mc.market_state = "volatile" /\ action = "SELL" /\ combined_score > -500000
    THEN "HOLD"
    ELSE IF mc.market_state = "bearish" /\ action = "BUY" /\ combined_score < 600000
    THEN "HOLD"
    ELSE action

\* faulty variant: the direction thresholds are inclusive
SignalDirection_Inclusive(combined_score) ==
    IF combined_score >= 300000 THEN "bullish"
    ELSE IF combined_score <= -300000 THEN "bearish"
    ELSE "neutral"

\* calculate_confidence, step 1
SignalDirection(combined_score) ==
    IF combined_score > 300000 THEN "bullish"
    ELSE IF combined_score < -300000 THEN "bearish"
    ELSE "neutral"

agrees_with_signal(score, direction) ==
    IF direction = "bullish" THEN score > 20
    ELSE IF direction = "bearish" THEN score < -20
    ELSE -20 <= score /\ score <= 20

MarketAgrees(mc, direction) ==
    IF direction = "bullish" THEN mc.market_state \in {"bullish", "neutral"}
    ELSE IF direction = "bearish" THEN mc.market_state \in {"bearish", "neutral"}
    ELSE mc.market_state = "neutral"

B2N(b) == IF b THEN 1 ELSE 0

\* base agreement score in hundredths
AgreementScore(agreements, total_components) ==
    IF total_components = 4
    THEN IF agreements = 4 THEN 85
         ELSE IF agreements = 3 THEN 75
         ELSE IF agreements = 2 THEN 65
         ELSE 45
    ELSE IF agreements = 3 THEN 80
         ELSE IF agreements = 2 THEN 70
         ELSE 50

\* component confidences in units of 1e-4
SentimentConf(sentiment) ==
    LET base == IF sentiment.confidence > 0 THEN sentiment.confidence ELSE 5000
    IN  IF sentiment.n_sources < 2 THEN (base * 7) \div 10
        ELSE IF sentiment.n_sources >= 5 THEN MinOf(10000, (base * 11) \div 10)
        ELSE base

TechnicalConf(technical) ==
    IF Abs(technical.technical_score) < 20 THEN 5000
    ELSE IF Abs(technical.technical_score) > 60 THEN 9500
    ELSE 8000

FundamentalConf(fundamental) ==
    IF fundamental.missing_metrics = 0 THEN 9000
    ELSE IF fundamental.missing_metrics >= 2 THEN 5000
    ELSE 7000

\* faulty variant: the penalty is not capped
DataQualityPenalty_NoCap(sentiment, fundamental, mc) ==
    (IF IsNone(mc) THEN 5 ELSE 0)
    + (IF sentiment.n_sources < 2 THEN 10 ELSE IF sentiment.n_sources < 3 THEN 5 ELSE 0)
    + (IF fundamental.missing_metrics >= 2 THEN 10
       ELSE IF fundamental.missing_metrics = 1 THEN 5 ELSE 0)
    + (IF sentiment.sentiment_score = 0 /\ sentiment.n_sources = 0 THEN 15 ELSE 0)

\* data quality penalty in hundredths
DataQualityPenalty(sentiment, fundamental, mc) ==
    LET p1 == IF IsNone(mc) THEN 5 ELSE 0
        p2 == IF sentiment.n_sources < 2 THEN 10
              ELSE IF sentiment.n_sources < 3 THEN 5 ELSE 0
        p3 == IF fundamental.missing_metrics >= 2 THEN 10
              ELSE IF fundamental.missing_metrics = 1 THEN 5 ELSE 0
        p4 == IF sentiment.sentiment_score = 0 /\ sentiment.n_sources = 0 THEN 15 ELSE 0
    IN  MinOf(30, p1 + p2 + p3 + p4)

\* faulty variant: the penalty raises the confidence
PenalisedConfidence_Raised(raw, data_quality_penalty) ==
    MaxOf(0, MinOf(100000000, raw * (100 + data_quality_penalty)))

\* "confidence = confidence * (1.0 - data_quality_penalty)", then the clamp
PenalisedConfidence(raw, data_quality_penalty) ==
    MaxOf(0, MinOf(100000000, raw * (100 - data_quality_penalty)))

\* calculate_confidence: confidence in units of 1e-8, the breakdown rounded
\* to hundredths; signal_direction and agreements are the locals of the same
\* names, kept for inspection
calculate_confidence(sentiment, technical, fundamental, combined_score, mc) ==
    LET signal_direction == SignalDirection(combined_score)
        sentiment_agrees == agrees_with_signal(sentiment.sentiment_score, signal_direction)
        technical_agrees == agrees_with_signal(technical.technical_score, signal_direction)
        fundamental_agrees ==
            agrees_with_signal(fundamental.fundamental_score, signal_direction)
        market_agrees == IF IsNone(mc) THEN FALSE ELSE MarketAgrees(mc, signal_direction)
        agreements == B2N(sentiment_agrees) + B2N(technical_agrees)
                      + B2N(fundamental_agrees) + B2N(market_agrees)
        total_components == IF IsNone(mc) THEN 3 ELSE 4
        agreement_score == AgreementScore(agreements, total_components)
        sentiment_conf == SentimentConf(sentiment)
        technical_conf == TechnicalConf(technical)
        fundamental_conf == FundamentalConf(fundamental)
        market_signal_quality == IF IsNone(mc) THEN 0 ELSE mc.market_signal_quality
        market_favorability == IF IsNone(mc) THEN 0 ELSE mc.market_favorability
        data_quality_penalty == DataQualityPenalty(sentiment, fundamental, mc)
        raw == agreement_score * 100 * 60 + sentiment_conf * 15 + technical_conf * 10
               + fundamental_conf * 10 + market_favorability * 5
        confidence == PenalisedConfidence(raw, data_quality_penalty)
    IN  [confidence |-> confidence,
         signal_direction |-> signal_direction,
         agreements |-> agreements,
         breakdown |->
            [sentiment_confidence |-> RoundDiv(sentiment_conf, 100),
             technical_confidence |-> RoundDiv(technical_conf, 100),
             fundamental_confidence |-> RoundDiv(fundamental_conf, 100),
             market_signal_quality |-> RoundDiv(market_signal_quality, 100),
             market_favorability |-> RoundDiv(market_favorability, 100),
             agreement_score |-> agreement_score,
             data_quality_penalty |-> data_quality_penalty]]

\* suggest_price_range, in price units; <<low, high>>
suggest_price_range(action, current_price, technical) ==
    LET default == <<Times(current_price, 98, 100), Times(current_price, 102, 100)>>
        supports_below == {x \in technical.support_levels : x < current_price}
        resistances_above == {x \in technical.resistance_levels : x > current_price}
    IN  IF action = "BUY"
        THEN IF supports_below # {}
             THEN <<Max(supports_below), Times(current_price, 102, 100)>>
             ELSE default
        ELSE IF action = "SELL"
        THEN IF resistances_above # {}
             THEN <<Times(current_price, 98, 100), Min(resistances_above)>>
             ELSE default
        ELSE default

\* generate_recommendation; an absent price range is the empty sequence.  The
\* reasoning text is not modelled.
generate_recommendation(sentiment, technical, fundamental, current_price, mc) ==
    LET weights == get_dynamic_weights(mc)
        combined_score == CombinedScore(sentiment, technical, fundamental, weights)
        action0 == ThresholdAction(combined_score)
        conf == calculate_confidence(sentiment, technical, fundamental, combined_score, mc)
        action == IF IsNone(mc) THEN action0
                  ELSE adjust_for_market_context(action0, combined_score, mc)
        levels == IF action = "BUY"
                  THEN calculate_trade_levels(current_price, technical, action)
                  ELSE None
    IN  IF levels.kind = "ValueError" THEN Raised("ValueError")
        ELSE [kind |-> "Recommendation",
              action |-> action,
              confidence |-> conf.confidence,
              entry_price |-> IF action = "BUY"
                              THEN suggest_price_range(action, current_price, technical)
                              ELSE <<>>,
              exit_price |-> IF action = "SELL"
                             THEN suggest_price_range(action, current_price, technical)
                             ELSE <<>>,
              sentiment_contribution |-> sentiment.sentiment_score * weights.sentiment,
              technical_contribution |-> technical.technical_score * weights.technical,
              fundamental_contribution |->
                  fundamental.fundamental_score * weights.fundamental,
              combined_score |-> combined_score,
              signal_direction |-> conf.signal_direction,
              agreements |-> conf.agreements,
              trade_levels |-> levels,
              confidence_breakdown |-> conf.breakdown,
              runtime_weights |-> weights]

(***************************************************************************)
(* Orchestration: analyze_stock                                            *)
(***************************************************************************)
\* DataQualityMonitor.apply_confidence_penalty; penalty in hundredths
apply_confidence_penalty(original_confidence, penalty, one) ==
    MaxOf(0, MinOf(one, Times(original_confidence, 100 - penalty, 100)))

\* faulty variant: the override is missing
OverrideAction_Missing(signal, action) == action

\* "if no_trade_signal.is_no_trade and recommendation.action == 'BUY'"
OverrideAction(signal, action) ==
    IF signal.is_no_trade /\ action = "BUY" THEN "HOLD" ELSE action

\* analyze_stock from phase 2.5 on, given what the fetches and analyzers
\* produced.  fused is what generate_recommendation returned; the result's
\* recommendation is the same object after the penalty and the override.
\* The agent's detector is constructed with enable_no_trade = True.
analyze_stock(mc, sentiment, technical, fundamental, current_price, penalty) ==
    LET signal == check_market_conditions(TRUE, mc)
        sentiment1 == IF penalty > 0
                      THEN [sentiment EXCEPT !.confidence =
                               apply_confidence_penalty(@, penalty, 10000)]
                      ELSE sentiment
        fused == generate_recommendation(sentiment1, technical, fundamental,
                                         current_price, mc)
    IN  IF signal.kind # "NoTradeSignal"
        THEN [kind |-> "AnalysisError", cause |-> signal.kind, signal |-> None,
              fused |-> None]
        ELSE IF fused.kind # "Recommendation"
        THEN [kind |-> "AnalysisError", cause |-> fused.kind, signal |-> signal,
              fused |-> None]
        ELSE [kind |-> "AnalysisResult",
              fused |-> fused,
              signal |-> signal,
              recommendation |->
                  [fused EXCEPT
                      !.confidence = IF penalty > 0
                                     THEN apply_confidence_penalty(@, penalty, 100000000)
                                     ELSE @,
                      !.action = OverrideAction(signal, @)],
              market_context |-> mc,
              no_trade_signal |-> IF signal.is_no_trade THEN signal ELSE None]

(***************************************************************************)
(* Inputs                                                                  *)
(***************************************************************************)
\* the most support or resistance levels in one list
MaxLevels == 2

\* a market state outside the four the provider produces
States5 == MarketStates \cup {"sideways"}

\* every combination of the fields the gate reads; the fields it never reads
\* are held at one value
GateContexts ==
    {MkContext(nt, bt, vl, ms, np, 10100, n50, 48000, 47500, 47000, vv, 7000, 5000) :
        nt \in Trends, bt \in Trends, vl \in VixLevels, ms \in States5,
        np \in GatePrices, n50 \in GateDmas, vv \in VixValues}

\* instrument prices, support and resistance levels and ATRs, in cents; none
\* of them puts a level exactly half-way between two cents, where the result
\* of Python's round depends on the binary representation of the float
LevelPrices == {10000, 40}

SupportCands == {30, 9000, 9101, 9950, 10200}

ResistanceCands == {50, 9200, 10100, 10400, 11000}

AtrValues == {0, 2, 200, 210, 1000}

Actions == {"BUY", "SELL", "HOLD"}

\* the ATR of 2.00 is drawn with the levels of the worked example only: price
\* 100.00, support 90.00, resistance 110.00
ExampleLevels(price, sup, res) ==
    price = 10000 * CENT /\ sup = {9000} /\ res = {11000}

LevelSets(cands) == {S \in SUBSET cands : Cardinality(S) <= MaxLevels}

Scaled(S) == {x * CENT : x \in S}

Scores == {-100, -40, -30, 0, 30, 40, 55, 100}

MkSentiment(score, confidence, n) ==
    [sentiment_score |-> score, confidence |-> confidence, n_sources |-> n]

MkFundamental(score, missing) ==
    [fundamental_score |-> score, missing_metrics |-> missing]

SentimentInputs ==
    {MkSentiment(sc, 8000, 5) : sc \in Scores}
    \cup {MkSentiment(0, 0, 0), MkSentiment(40, 8000, 1), MkSentiment(40, 6000, 2),
          MkSentiment(40, 10000, 5), MkSentiment(40, 6000, 3), MkSentiment(0, 0, 1)}

FundamentalInputs ==
    {MkFundamental(sc, 0) : sc \in Scores}
    \cup {MkFundamental(40, 1), MkFundamental(40, 3)}

\* indicators on the edges of the level calculator: a support within 1% of
\* the price of 100.00 (99.50, ATR 2.10) and an ATR of 0.001 with no support
EdgeTechnicals ==
    {MkTechnical(Scaled({9950}), Scaled({11000}), 210 * CENT, sc) : sc \in {55, 100}}
    \cup {MkTechnical({}, Scaled({11000}), CENT \div 10, sc) : sc \in {55, 100}}

TechnicalInputs ==
    {MkTechnical(Scaled(sup), Scaled({11000}), 200 * CENT, sc) :
        sup \in {{9000}, {}}, sc \in Scores}
    \cup EdgeTechnicals

\* contexts handed to the fusion engine directly: it reads the market state,
\* the signal quality and the favorability
FusionContexts ==
    {MkContext("neutral", "neutral", "moderate", ms, 10000, 10000, 10000,
               48000, 48000, 48000, 180, 7000, 5500) : ms \in States5}
    \cup {MkContext("bullish", "bullish", "low", "bullish", 10000, 10000, 10000,
                    48000, 48000, 48000, 120, 10000, 10000),
          MkContext("bearish", "bearish", "moderate", "bearish", 10000, 10000, 10000,
                    48000, 48000, 48000, 180, 0, 0)}

\* analyzer scores of the pipeline; no combination of them puts the combined
\* score on a threshold
PipelineScores == {-90, 40, 100}

\* configured weight triples in units of 1e-4: the default; sums of 1.5, 2.0
\* and 0.5; a sum 0.0005 above 1.0; all zero; a negative triple; a weight above
\* 1.0 with sum 1.0; a negative weight with sum 0.  The normalised weights are
\* whole numbers of 1e-4
ConfiguredWeights ==
    {MkConfig(5000, 3000, 2000), MkConfig(6000, 6000, 3000),
     MkConfig(10000, 10000, 0), MkConfig(2500, 1500, 1000),
     MkConfig(4002, 4002, 2001), MkConfig(0, 0, 0), MkConfig(-5000, -3000, -2000),
     MkConfig(15000, -3000, -2000), MkConfig(20000, -10000, -10000)}

\* inputs to an engine with configured weights
ConfiguredSentiments == {MkSentiment(sc, 8000, 5) : sc \in PipelineScores}

ConfiguredTechnicals ==
    {MkTechnical(Scaled({9000}), Scaled({11000}), 200 * CENT, sc) : sc \in PipelineScores}

ConfiguredFundamentals == {MkFundamental(sc, 0) : sc \in PipelineScores}

\* what the data layer hands to _fetch_index_data and _fetch_vix
MkFetch(price, points, avg20, avg50) ==
    [kind |-> "data", price |-> price, points |-> points,
     avg20 |-> avg20, avg50 |-> avg50]

FetchError == [kind |-> "error"]

\* a failed fetch, a rising index, one more than 3% and one less than 3% below
\* its 50-day average, and two short histories; the averages make the signal
\* quality a whole number of 1e-4
NiftyFetches ==
    {FetchError,
     MkFetch(10500, 200, 10000, 9600),
     MkFetch(9000, 200, 9600, 10000),
     MkFetch(9702, 200, 9900, 10000),
     MkFetch(9900, 30, 10000, 0),
     MkFetch(10000, 5, 0, 0)}

BankNiftyFetches ==
    {FetchError,
     MkFetch(48000, 200, 47500, 47000),
     MkFetch(46000, 200, 47500, 47000),
     MkFetch(47200, 200, 47500, 47000)}

VixFetches == {FetchError} \cup {MkFetch(v, 200, v, v) : v \in {120, 199, 200, 251, 280}}

\* total_confidence_penalty of the data quality report, in hundredths
Penalties == {0, 25}

(***************************************************************************)
(* Technical analyzer.  Closing prices, moving averages and MACD values    *)
(* are in 1e-4 of a price unit (TU), RSI in hundredths of a point          *)
(* (25.0 = 2500), indicator scores in hundredths, the technical score in   *)
(* 1e-4.                                                                   *)
(***************************************************************************)
\* the thresholds of classify_regime, in hundredths of an RSI point
RSI_OVERSOLD == 2500

RSI_OVERBOUGHT == 7500

\* the fields of TechnicalIndicators that classify_regime reads
MkRegimeInput(ma_20, ma_50, ma_200, rsi, macd) ==
    [ma_20 |-> ma_20, ma_50 |-> ma_50, ma_200 |-> ma_200, rsi |-> rsi, macd |-> macd]

\* faulty variant: the overbought zone is tested before the oversold zone and
\* without the price condition
classify_regime_LooseOverbought(current_price, indicators) ==
    LET rsi == indicators.rsi
        macd == indicators.macd
        ma_20 == indicators.ma_20
    IN  IF rsi > RSI_OVERBOUGHT /\ macd > 0 THEN "overbought-zone"
        ELSE IF rsi < RSI_OVERSOLD /\ macd < 0 /\ current_price < ma_20
             THEN "oversold-zone"
        ELSE IF current_price > ma_20 /\ macd > 0 THEN "bullish-trend"
        ELSE IF current_price < ma_20 /\ macd < 0 THEN "bearish-trend"
        ELSE "consolidation"

\* TechnicalAnalyzer.classify_regime
classify_regime(current_price, indicators) ==
    LET rsi == indicators.rsi
        macd == indicators.macd
        ma_20 == indicators.ma_20
        ma_50 == indicators.ma_50
        ma_200 == indicators.ma_200
        bullish_ma_alignment == current_price > ma_20 /\ ma_20 > ma_50 /\ ma_50 > ma_200
        bullish_momentum == macd > 0 /\ 5000 <= rsi /\ rsi <= 7000
        bearish_ma_alignment == current_price < ma_20 /\ ma_20 < ma_50 /\ ma_50 < ma_200
        bearish_momentum == macd < 0 /\ 3000 <= rsi /\ rsi <= 5000
    IN  IF rsi < RSI_OVERSOLD /\ macd < 0 /\ current_price < ma_20 THEN "oversold-zone"
        ELSE IF rsi > RSI_OVERBOUGHT /\ macd > 0 /\ current_price > ma_20
             THEN "overbought-zone"
        ELSE IF bullish_ma_alignment /\ bullish_momentum THEN "bullish-trend"
        ELSE IF bearish_ma_alignment /\ bearish_momentum THEN "bearish-trend"
        ELSE IF current_price > ma_20 /\ macd > 0 THEN "bullish-trend"
        ELSE IF current_price < ma_20 /\ macd < 0 THEN "bearish-trend"
        ELSE "consolidation"

Regimes ==
    {"oversold-zone", "overbought-zone", "bullish-trend", "bearish-trend",
     "consolidation"}

\* inputs of classify_regime: prices and averages around 100.00, RSI on both
\* sides of every threshold, MACD of either sign and zero
RegimePrices == {900000, 1000000, 1100000}

RegimeMa50s == {900000, 1000000, 1100000}

RegimeMa200s == {800000, 1000000, 1200000}

RegimeRsis == {0, 2499, 2500, 3000, 5000, 7000, 7500, 7501, 10000}

RegimeMacds == {-5000, 0, 5000}

\* a PricePoint in cents; its validation (low <= open, close <= high, nothing
\* negative) holds for every point of the histories below
MkPricePoint(open, high, low, close) ==
    [open |-> open, high |-> high, low |-> low, close |-> close]

\* a float that is a number, and the float NaN
Float(v) == [kind |-> "float", v |-> v]

NaN == [kind |-> "nan"]

ZeroDivisionError == [kind |-> "ZeroDivisionError"]

IsError(x) == x.kind \in {"ValueError", "ZeroDivisionError"}

\* F of the value of v, with v evaluated once: a local variable of the code
Bind(v, F(_)) == CHOOSE r \in {F(x) : x \in {v}} : TRUE

RECURSIVE SumRange(_, _, _)
\* s[lo] + ... + s[hi]
SumRange(s, lo, hi) ==
    IF lo > hi THEN 0
    ELSE IF lo = hi THEN s[lo]
    ELSE Bind((lo + hi) \div 2,
              LAMBDA mid : SumRange(s, lo, mid) + SumRange(s, mid + 1, hi))

\* "rolling(window).mean().iloc[-1]" of the closes, in TU
RollingMean(prices, window) ==
    RoundDiv(100 * SumRange([i \in 1..Len(prices) |-> prices[i].close],
                            Len(prices) - window + 1, Len(prices)),
             window)

\* TechnicalAnalyzer.calculate_moving_averages
calculate_moving_averages(prices) ==
    IF Len(prices) < 20
    THEN ValueError("Need at least 20 price points to calculate moving averages")
    ELSE Bind(RollingMean(prices, 20), LAMBDA ma_20 :
         Bind(IF Len(prices) >= 50 THEN RollingMean(prices, 50) ELSE ma_20, LAMBDA ma_50 :
         Bind(IF Len(prices) >= 200 THEN RollingMean(prices, 200) ELSE ma_50,
              LAMBDA ma_200 :
                  [kind |-> "mas", ma_20 |-> ma_20, ma_50 |-> ma_50,
                   ma_200 |-> ma_200])))

\* the RSI window
RsiPeriod == 14

\* the gain of the close at point i
Gain(prices, i) == MaxOf(0, prices[i].close - prices[i - 1].close)

\* the loss of the close at point i
Loss(prices, i) == MaxOf(0, prices[i - 1].close - prices[i].close)

\* TechnicalAnalyzer.calculate_rsi: 100 - 100 / (1 + avg_gains / avg_losses)
\* over the last 14 changes.  No loss in the window divides by zero: the float
\* quotient is inf with some gain (RSI 100) and NaN without any
calculate_rsi(prices) ==
    IF Len(prices) < RsiPeriod + 1
    THEN ValueError("Need at least 15 price points to calculate RSI")
    ELSE Bind(SumRange([i \in 2..Len(prices) |-> Gain(prices, i)],
                       Len(prices) - RsiPeriod + 1, Len(prices)), LAMBDA gains :
         Bind(SumRange([i \in 2..Len(prices) |-> Loss(prices, i)],
                       Len(prices) - RsiPeriod + 1, Len(prices)), LAMBDA losses :
              IF losses = 0 THEN (IF gains = 0 THEN NaN ELSE Float(10000))
              ELSE Float(RoundDiv(10000 * gains, gains + losses))))

\* the next exponential average: the share 2 / (span + 1) of the value and the
\* rest of the average before, rounded to 1 TU
Ewm(span, value, before) == RoundDiv(2 * value + (span - 1) * before, span + 1)

\* one step of the exponential averages: the 12- and 26-point averages of the
\* closes and the 9-point average of their difference take in point st.i.
\* Past the last point nothing changes
MacdStep(prices, st) ==
    IF st.i > Len(prices) THEN st
    ELSE Bind(Ewm(12, 100 * prices[st.i].close, st.ema_12), LAMBDA e12 :
         Bind(Ewm(26, 100 * prices[st.i].close, st.ema_26), LAMBDA e26 :
              [i |-> st.i + 1, ema_12 |-> e12, ema_26 |-> e26,
               signal_line |-> Ewm(9, e12 - e26, st.signal_line)]))

MacdStep4(prices, st) ==
    Bind(MacdStep(prices, st), LAMBDA a :
    Bind(MacdStep(prices, a), LAMBDA b :
    Bind(MacdStep(prices, b), LAMBDA c : MacdStep(prices, c))))

MacdStep16(prices, st) ==
    Bind(MacdStep4(prices, st), LAMBDA a :
    Bind(MacdStep4(prices, a), LAMBDA b :
    Bind(MacdStep4(prices, b), LAMBDA c : MacdStep4(prices, c))))

RECURSIVE MacdFold(_, _)
\* the averages carried to the last point, sixteen points at a time
MacdFold(prices, st) ==
    IF st.i > Len(prices) THEN st
    ELSE Bind(MacdStep16(prices, st), LAMBDA next : MacdFold(prices, next))

\* TechnicalAnalyzer.calculate_macd; with adjust=False the first average is
\* the first close
calculate_macd(prices) ==
    IF Len(prices) < 35
    THEN ValueError("Need at least 35 price points to calculate MACD")
    ELSE Bind(MacdFold(prices, [i |-> 2, ema_12 |-> 100 * prices[1].close,
                                ema_26 |-> 100 * prices[1].close, signal_line |-> 0]),
              LAMBDA m : [kind |-> "macd", macd |-> m.ema_12 - m.ema_26,
                          macd_signal |-> m.signal_line])

\* the true range of point i, in cents
TrueRange(prices, i) ==
    MaxOf(prices[i].high - prices[i].low,
          MaxOf(Abs(prices[i].high - prices[i - 1].close),
                Abs(prices[i].low - prices[i - 1].close)))

\* TechnicalAnalyzer.calculate_atr, in TU
calculate_atr(prices) ==
    IF Len(prices) < RsiPeriod + 1 THEN 0
    ELSE RoundDiv(100 * SumRange([i \in 2..Len(prices) |-> TrueRange(prices, i)],
                                 Len(prices) - RsiPeriod + 1, Len(prices)),
                  RsiPeriod)

\* one turn of the loop of _cluster_levels over the sorted levels, with the
\* sum and size of the current cluster; "abs(level - cluster_avg) /
\* cluster_avg" divides by zero when the cluster's average is zero.  After the
\* last level, and after the exception, nothing changes
ClusterStep(levels, st) ==
    IF st.failed \/ st.i > Len(levels) THEN st
    ELSE IF st.sum = 0 THEN [st EXCEPT !.failed = TRUE]
    ELSE IF Abs(levels[st.i] * st.cnt - st.sum) * 50 <= st.sum
         THEN [st EXCEPT !.i = st.i + 1, !.sum = st.sum + levels[st.i],
                         !.cnt = st.cnt + 1]
         ELSE [st EXCEPT !.i = st.i + 1, !.sum = levels[st.i], !.cnt = 1,
                         !.clustered = Append(st.clustered,
                                              RoundDiv(100 * st.sum, st.cnt))]

ClusterStep4(levels, st) ==
    Bind(ClusterStep(levels, st), LAMBDA a :
    Bind(ClusterStep(levels, a), LAMBDA b :
    Bind(ClusterStep(levels, b), LAMBDA c : ClusterStep(levels, c))))

ClusterStep16(levels, st) ==
    Bind(ClusterStep4(levels, st), LAMBDA a :
    Bind(ClusterStep4(levels, a), LAMBDA b :
    Bind(ClusterStep4(levels, b), LAMBDA c : ClusterStep4(levels, c))))

RECURSIVE ClusterFold(_, _)
\* the loop carried to the last level, sixteen levels at a time
ClusterFold(levels, st) ==
    IF st.failed \/ st.i > Len(levels) THEN st
    ELSE Bind(ClusterStep16(levels, st), LAMBDA next : ClusterFold(levels, next))

\* a Python list of floats, as a value that compares with an exception
List(items) == [kind |-> "list", items |-> items]

\* TechnicalAnalyzer._cluster_levels: levels in cents, clusters in TU
cluster_levels(levels) ==
    Bind(SortSeq(levels, LAMBDA a, b : a < b), LAMBDA sorted :
         IF sorted = <<>> THEN List(<<>>)
         ELSE Bind(ClusterFold(sorted, [i |-> 2, sum |-> sorted[1], cnt |-> 1,
                                        clustered |-> <<>>, failed |-> FALSE]),
                   LAMBDA st :
                       IF st.failed THEN ZeroDivisionError
                       ELSE List(Append(st.clustered,
                                        RoundDiv(100 * st.sum, st.cnt)))))

\* the place i of a history of n points, the places beyond the ends read as
\* the ends
Clip(i, n) == MaxOf(1, MinOf(n, i))

\* scipy's argrelextrema(lows, np.less_equal, order) with mode "clip": the
\* indices whose low is not above the lows up to order places on either side
LocalMinima(prices, order) ==
    SelectSeq([i \in 1..Len(prices) |-> i],
              LAMBDA i : \A s \in 1..order :
                             /\ prices[i].low <= prices[Clip(i + s, Len(prices))].low
                             /\ prices[i].low <= prices[Clip(i - s, Len(prices))].low)

\* argrelextrema(highs, np.greater_equal, order)
LocalMaxima(prices, order) ==
    SelectSeq([i \in 1..Len(prices) |-> i],
              LAMBDA i : \A s \in 1..order :
                             /\ prices[i].high >= prices[Clip(i + s, Len(prices))].high
                             /\ prices[i].high >= prices[Clip(i - s, Len(prices))].high)

\* the last k elements of a sequence
LastOf(s, k) == IF Len(s) <= k THEN s ELSE SubSeq(s, Len(s) - k + 1, Len(s))

\* TechnicalAnalyzer.find_support_resistance
find_support_resistance(prices) ==
    IF Len(prices) < 20
    THEN ValueError("Need at least 20 price points to find support/resistance")
    ELSE Bind(MaxOf(5, Len(prices) \div 20), LAMBDA order :
         Bind(LocalMinima(prices, order), LAMBDA mins :
         Bind(LocalMaxima(prices, order), LAMBDA maxs :
         Bind(cluster_levels([k \in 1..Len(mins) |-> prices[mins[k]].low]),
              LAMBDA support_levels :
                  IF IsError(support_levels) THEN support_levels
                  ELSE Bind(cluster_levels([k \in 1..Len(maxs) |-> prices[maxs[k]].high]),
                            LAMBDA resistance_levels :
                                IF IsError(resistance_levels) THEN resistance_levels
                                ELSE [kind |-> "levels",
                                      support |-> LastOf(support_levels.items, 5),
                                      resistance |->
                                          LastOf(resistance_levels.items, 5)])))))

\* TechnicalAnalyzer._calculate_ma_score, in hundredths
calculate_ma_score(indicators) ==
    (IF indicators.ma_20 > indicators.ma_50 THEN 33 ELSE -33)
    + (IF indicators.ma_50 > indicators.ma_200 THEN 33 ELSE -33)
    + (IF indicators.ma_20 > indicators.ma_50 /\ indicators.ma_50 > indicators.ma_200
       THEN 34
       ELSE IF indicators.ma_20 < indicators.ma_50 /\ indicators.ma_50 < indicators.ma_200
            THEN -34 ELSE 0)

\* TechnicalAnalyzer._calculate_rsi_score, in hundredths
calculate_rsi_score(rsi) ==
    IF rsi > 7000 THEN RoundDiv(-(rsi - 7000), 30)
    ELSE IF rsi < 3000 THEN RoundDiv(3000 - rsi, 30)
    ELSE RoundDiv(rsi - 5000, 100)

\* tanh at 0, 0.25, ..., 5.0, in 1e-4
TanhTable ==
    <<0, 2449, 4621, 6351, 7616, 8483, 9051, 9414, 9640, 9780, 9866, 9919, 9951, 9970,
      9982, 9989, 9993, 9996, 9998, 9999, 9999>>

\* tanh of a >= 0 hundredths, in 1e-4: the table, interpolated linearly
TanhOfAbs(a) ==
    IF a >= 500 THEN 10000
    ELSE TanhTable[(a \div 25) + 1]
         + RoundDiv((TanhTable[(a \div 25) + 2] - TanhTable[(a \div 25) + 1]) * (a % 25),
                    25)

\* numpy's tanh of x hundredths, in 1e-4: an odd function within [-1, 1]
Tanh(x) == IF x < 0 THEN -TanhOfAbs(-x) ELSE TanhOfAbs(x)

\* TechnicalAnalyzer._calculate_macd_score: tanh((macd - signal) / 2.0), in 1e-4
calculate_macd_score(macd, signal) ==
    Bind(RoundDiv(macd - signal, 200), LAMBDA x : Tanh(x))

\* TechnicalAnalyzer.generate_technical_score, in 1e-4
generate_technical_score(indicators) ==
    Bind(30 * calculate_ma_score(indicators)
         + 30 * calculate_rsi_score(indicators.rsi)
         + RoundDiv(40 * calculate_macd_score(indicators.macd, indicators.macd_signal),
                    100),
         LAMBDA technical_score : MaxOf(-10000, MinOf(10000, technical_score)))

\* TechnicalAnalyzer.map_regime_to_direction: the strength multiplier, in tenths
StrengthMultiplier(regime) ==
    IF regime \in {"bullish-trend", "bearish-trend"} THEN 10
    ELSE IF regime \in {"oversold-zone", "overbought-zone"} THEN 8
    ELSE 5

\* TechnicalIndicators.__post_init__ as analyze calls it: symbol given, score
\* 0.0, direction, strength, confidence and regime at their defaults, so only
\* the RSI can fail; every comparison with NaN is false
TechnicalIndicators(mas, rsi, macd, atr, levels) ==
    IF rsi.kind = "nan" \/ ~(0 <= rsi.v /\ rsi.v <= 10000)
    THEN ValueError("RSI must be between 0 and 100")
    ELSE [kind |-> "TechnicalIndicators",
          ma_20 |-> mas.ma_20, ma_50 |-> mas.ma_50, ma_200 |-> mas.ma_200,
          rsi |-> rsi.v, macd |-> macd.macd, macd_signal |-> macd.macd_signal,
          support_levels |-> levels.support, resistance_levels |-> levels.resistance,
          technical_score |-> 0, atr |-> atr,
          direction |-> "neutral", strength |-> 0, confidence |-> 0,
          regime |-> "neutral"]

\* the direction analyze assigns
DirectionOf(regime, technical_score) ==
    IF regime = "oversold-zone" THEN "bearish"
    ELSE IF regime = "overbought-zone" THEN "bullish"
    ELSE IF regime = "consolidation" THEN "neutral"
    ELSE IF technical_score > 2000 THEN "bullish"
    ELSE IF technical_score < -2000 THEN "bearish"
    ELSE "neutral"

\* the strength analyze assigns, in 1e-4
StrengthOf(regime, technical_score) ==
    Bind(Times(Abs(technical_score), StrengthMultiplier(regime), 10), LAMBDA strength :
         MinOf(10000,
               IF regime \in {"oversold-zone", "overbought-zone"}
               THEN Times(strength, 7, 10)
               ELSE IF DirectionOf(regime, technical_score) = "neutral"
                    THEN Times(strength, 3, 10)
                    ELSE strength))

\* the confidence analyze assigns, in 1e-4
ConfidenceOf(regime, technical_score) ==
    Bind(IF Abs(technical_score) < 2000 THEN 5000
         ELSE IF Abs(technical_score) > 6000 THEN 9500
         ELSE 8000,
         LAMBDA base :
             IF regime \in {"bullish-trend", "bearish-trend"}
             THEN MinOf(10000, Times(base, 110, 100))
             ELSE IF regime \in {"oversold-zone", "overbought-zone"}
                  THEN MinOf(10000, Times(base, 105, 100))
                  ELSE base)

\* the end of analyze: regime, score, direction, strength and confidence are
\* assigned to the constructed indicators
Scored(current_price, indicators) ==
    Bind(classify_regime(current_price, indicators), LAMBDA regime :
    Bind(generate_technical_score(indicators), LAMBDA technical_score :
         [indicators EXCEPT !.technical_score = technical_score,
                            !.direction = DirectionOf(regime, technical_score),
                            !.strength = StrengthOf(regime, technical_score),
                            !.confidence = ConfidenceOf(regime, technical_score),
                            !.regime = regime]))

\* the fewest points analyze accepts
MinHistory == 200

\* analyze after the length check: the indicators in the order of the code,
\* the first exception ending the call
Indicators(prices) ==
    Bind(calculate_moving_averages(prices), LAMBDA mas :
    IF IsError(mas) THEN mas ELSE
    Bind(calculate_rsi(prices), LAMBDA rsi :
    IF IsError(rsi) THEN rsi ELSE
    Bind(calculate_macd(prices), LAMBDA macd :
    IF IsError(macd) THEN macd ELSE
    Bind(calculate_atr(prices), LAMBDA atr :
    Bind(find_support_resistance(prices), LAMBDA levels :
    IF IsError(levels) THEN levels ELSE
    Bind(TechnicalIndicators(mas, rsi, macd, atr, levels), LAMBDA indicators :
    IF IsError(indicators) THEN indicators
    ELSE Scored(100 * prices[Len(prices)].close, indicators)))))))

\* TechnicalAnalyzer.analyze
analyze(prices) ==
    IF Len(prices) < MinHistory
    THEN ValueError("Need at least 200 price points for complete technical analysis")
    ELSE Indicators(prices)

\* price histories: a length on either side of each limit of the analyzer, a
\* shape, the lowest close and the size of a daily move, both in cents
HistoryLengths == {0, 19, 20, 199, 200, 201}

HistoryShapes ==
    {"flat", "rising", "falling", "climbing", "sliding", "waves", "rebound"}

HistoryBases == {0, 5000}

HistorySteps == {10, 30}

\* the offset of the close of point i from the lowest close, in steps
ShapeOffset(shape, i, n) ==
    IF shape = "flat" THEN 0
    ELSE IF shape = "rising" THEN i
    ELSE IF shape = "falling" THEN n - i
    ELSE IF shape = "climbing" THEN (i \div 2) + (IF i % 2 = 1 THEN 3 ELSE 0)
    ELSE IF shape = "sliding" THEN ((n + 1 - i) \div 2) + (IF i % 2 = 1 THEN 0 ELSE 3)
    ELSE IF shape = "rebound"
         THEN (IF i <= n - 16 THEN n - 16 - i
               ELSE 3 * ((i - (n - 16)) \div 2) + (IF (i - (n - 16)) % 2 = 1 THEN 5 ELSE 0))
    ELSE LET ph == i % 46 IN (IF ph <= 23 THEN ph ELSE 46 - ph) + (i \div 46)

\* the history of n points: open and close equal, high and low one step away
\* and never below zero
History(shape, base, step, n) ==
    [i \in 1..n |->
        Bind(base + step * ShapeOffset(shape, i, n),
             LAMBDA close : MkPricePoint(close, close + step, MaxOf(0, close - step),
                                         close))]

(***************************************************************************)
(* Reversal watch detector.  Ratios and the fundamental score are in       *)
(* hundredths (30 is 3000), revenue growth in hundredths of a percent, the *)
(* VIX in tenths, RSI in hundredths, the volume ratio in hundredths and    *)
(* the confidence in hundredths.  An unknown ratio is None.                *)
(***************************************************************************)
MkFundamentalMetrics(score, pe_ratio, pb_ratio, debt_to_equity, revenue_growth) ==
    [fundamental_score |-> score, pe_ratio |-> pe_ratio, pb_ratio |-> pb_ratio,
     debt_to_equity |-> debt_to_equity, revenue_growth |-> revenue_growth]

MkReversalTechnical(regime, rsi, macd, macd_signal) ==
    [regime |-> regime, rsi |-> rsi, macd |-> macd, macd_signal |-> macd_signal]

ReversalTrigger(name, met, value, threshold) ==
    [name |-> name, met |-> met, value |-> value, threshold |-> threshold]

ReversalWatch(is_reversal_setup, status, triggers, confidence) ==
    [kind |-> "ReversalWatch", is_reversal_setup |-> is_reversal_setup,
     status |-> status, triggers |-> triggers, confidence |-> confidence]

\* faulty variant: an unknown P/E ratio fails the check
check_fundamental_quality_KnownOnly(fundamental) ==
    IF fundamental.fundamental_score < 0 THEN FALSE
    ELSE IF IsNone(fundamental.pe_ratio) THEN FALSE
    ELSE IF fundamental.pe_ratio.v > 3000 THEN FALSE
    ELSE IF ~IsNone(fundamental.pb_ratio) /\ fundamental.pb_ratio.v > 500 THEN FALSE
    ELSE IF ~IsNone(fundamental.debt_to_equity) /\ fundamental.debt_to_equity.v > 200
         THEN FALSE
    ELSE IF ~IsNone(fundamental.revenue_growth) /\ fundamental.revenue_growth.v < -1000
         THEN FALSE
    ELSE TRUE

\* ReversalWatchDetector.check_fundamental_quality: the flag of the pair
check_fundamental_quality(fundamental) ==
    IF fundamental.fundamental_score < 0 THEN FALSE
    ELSE IF ~IsNone(fundamental.pe_ratio) /\ fundamental.pe_ratio.v > 3000 THEN FALSE
    ELSE IF ~IsNone(fundamental.pb_ratio) /\ fundamental.pb_ratio.v > 500 THEN FALSE
    ELSE IF ~IsNone(fundamental.debt_to_equity) /\ fundamental.debt_to_equity.v > 200
         THEN FALSE
    ELSE IF ~IsNone(fundamental.revenue_growth) /\ fundamental.revenue_growth.v < -1000
         THEN FALSE
    ELSE TRUE

\* ReversalWatchDetector.check_market_panic: the flag of the pair
check_market_panic(context) ==
    IF IsNone(context) THEN FALSE
    ELSE IF context.vix_value > 300 THEN TRUE
    ELSE IF context.market_state = "volatile" /\ context.vix_value > 250 THEN TRUE
    ELSE FALSE

\* the sum of the volumes of prices[from..to]
RECURSIVE SumVolumes(_, _, _)
SumVolumes(prices, from, to) ==
    IF from > to THEN 0 ELSE prices[from].volume + SumVolumes(prices, from + 1, to)

\* current_volume / avg_volume of the last 20 points, in hundredths; the
\* volumes of the model give a ratio that is exact at the threshold
VolumeRatio(prices) ==
    LET n == Len(prices)
        total == SumVolumes(prices, n - 19, n)
    IN  IF total > 0 THEN (100 * prices[n].volume * 20) \div total ELSE 100

\* ReversalWatchDetector.check_reversal_triggers
check_reversal_triggers(technical, prices) ==
    LET macd_histogram == technical.macd - technical.macd_signal
    IN  << ReversalTrigger("RSI Recovery", technical.rsi > 3000, technical.rsi, 3000),
           ReversalTrigger("MACD Momentum", macd_histogram > 0, macd_histogram, 0),
           IF Len(prices) >= 20
           THEN ReversalTrigger("Volume Spike", VolumeRatio(prices) > 150,
                                VolumeRatio(prices), 150)
           ELSE ReversalTrigger("Volume Spike", FALSE, 0, 150) >>

\* the number of triggers that are met
TriggersMet(triggers) == Cardinality({i \in DOMAIN triggers : triggers[i].met})

\* faulty variant: two met triggers are enough for the status triggered
detect_TwoSuffice(technical, fundamental, context, prices) ==
    IF technical.regime # "oversold-zone"
    THEN ReversalWatch(FALSE, "not-applicable", << >>, 0)
    ELSE IF ~check_fundamental_quality(fundamental)
    THEN ReversalWatch(FALSE, "not-applicable", << >>, 0)
    ELSE IF check_market_panic(context)
    THEN ReversalWatch(FALSE, "not-applicable", << >>, 0)
    ELSE LET triggers == check_reversal_triggers(technical, prices)
             triggers_met == TriggersMet(triggers)
         IN  IF triggers_met >= 2
             THEN ReversalWatch(TRUE, "triggered", triggers, 85)
             ELSE ReversalWatch(TRUE, "watch-only", triggers, 45)

\* ReversalWatchDetector.detect
detect(technical, fundamental, context, prices) ==
    IF technical.regime # "oversold-zone"
    THEN ReversalWatch(FALSE, "not-applicable", << >>, 0)
    ELSE IF ~check_fundamental_quality(fundamental)
    THEN ReversalWatch(FALSE, "not-applicable", << >>, 0)
    ELSE IF check_market_panic(context)
    THEN ReversalWatch(FALSE, "not-applicable", << >>, 0)
    ELSE LET triggers == check_reversal_triggers(technical, prices)
             triggers_met == TriggersMet(triggers)
             total_triggers == Len(triggers)
         IN  IF triggers_met = total_triggers
             THEN ReversalWatch(TRUE, "triggered", triggers, 85)
             ELSE IF triggers_met >= 2
             THEN ReversalWatch(TRUE, "watch-only", triggers, 65)
             ELSE ReversalWatch(TRUE, "watch-only", triggers, 45)

\* the fundamentals handed to detect: every ratio on its limit, every ratio
\* unknown, a negative score, and each ratio just past its limit
ReversalFundamentals ==
    { MkFundamentalMetrics(0, Float(3000), Float(500), Float(200), Float(-1000)),
      MkFundamentalMetrics(50, None, None, None, None),
      MkFundamentalMetrics(-1, Float(1500), Float(200), Float(50), Float(500)),
      MkFundamentalMetrics(0, Float(3001), Float(500), Float(200), Float(-1000)),
      MkFundamentalMetrics(0, Float(3000), Float(501), Float(200), Float(-1000)),
      MkFundamentalMetrics(0, Float(3000), Float(500), Float(201), Float(-1000)),
      MkFundamentalMetrics(0, Float(3000), Float(500), Float(200), Float(-1001)) }

\* a market context with the given state and VIX value
ReversalContext(market_state, vix_value) ==
    MkContext("neutral", "neutral", determine_vix_level(vix_value), market_state,
              10000, 10000, 10000, 10000, 10000, 10000, vix_value, 5000, 5000)

ReversalContexts ==
    {None} \cup { ReversalContext(ms, vv) :
                     ms \in {"neutral", "volatile"}, vv \in {250, 251, 300, 301} }

ReversalRsis == {2000, 3000, 3001, 6000}

\* <<macd, macd_signal>>
ReversalMacds == { <<-5000, -4000>>, <<-5000, -5000>>, <<-5000, -6000>> }

\* the volumes of a history: 19 points, 20 points of no volume, a last volume
\* of exactly 1.5 times the average of the last 20 and one above it
VolumeShapes == {"short", "none", "threshold", "spike"}

Volumes(shape) ==
    IF shape = "short" THEN [i \in 1..19 |-> [volume |-> IF i = 19 THEN 9000 ELSE 3700]]
    ELSE IF shape = "none" THEN [i \in 1..20 |-> [volume |-> 0]]
    ELSE IF shape = "threshold"
    THEN [i \in 1..21 |-> [volume |-> IF i = 21 THEN 5700 ELSE IF i = 1 THEN 90000 ELSE 3700]]
    ELSE [i \in 1..21 |-> [volume |-> IF i = 21 THEN 5800 ELSE IF i = 1 THEN 0 ELSE 3700]]

\* the inputs of the reversal step of analyze_stock
PipelineMacds == ReversalMacds \cup { <<5000, 4000>>, <<0, -1000>> }

PipelineFundamentals ==
    { MkFundamentalMetrics(50, None, None, None, None),
      MkFundamentalMetrics(-1, Float(1500), Float(200), Float(50), Float(500)) }

PipelineContexts == {None, ReversalContext("volatile", 251)}

(***************************************************************************)
(* Market context cache: get_market_context and its callers.  A caller's   *)
(* reads and writes of _cache and _cache_time are separate steps, between  *)
(* which another caller may run.  Time is in minutes.                      *)
(***************************************************************************)
\* "self._cache_duration = timedelta(minutes=15)"
cache_duration == 15

\* the last minute of the clock
MaxTime == 16

\* the most refreshes in one behaviour
MaxRefreshes == 2

\* how far the clock moves at once: after 7, 8 or 14 minutes an entry is
\* fresh, after 7 + 8 minutes it is exactly cache_duration old
TimeSteps == {7, 8}

\* what the data provider returns for the two indices and the VIX
MkMarket(nifty, banknifty, vix) == [nifty |-> nifty, banknifty |-> banknifty, vix |-> vix]

RisingMarket ==
    MkMarket(MkFetch(10500, 200, 10000, 9600), MkFetch(48000, 200, 47500, 47000),
             MkFetch(120, 200, 120, 120))

FallingMarket ==
    MkMarket(MkFetch(9000, 200, 9600, 10000), MkFetch(46000, 200, 47500, 47000),
             FetchError)

MarketData == {RisingMarket, FallingMarket}

\* the value of _cache: a context and, for inspection, the refresh that made it
MkCached(context, refresh) == [kind |-> "Cached", context |-> context, refresh |-> refresh]

\* the value of _cache_time, with the refresh that stored it
MkCacheTime(time, refresh) == [kind |-> "Time", time |-> time, refresh |-> refresh]

\* a caller that is not inside get_market_context.  entry is the cache as the
\* call found it, seen the timestamp its freshness check read, source the data
\* it fetched, local its fresh context, ret what it returned
IdleCall ==
    [pc |-> "idle", use_cache |-> FALSE, entry |-> None, seen |-> None,
     source |-> None, local |-> None, fetched |-> FALSE, ret |-> None]

\* faulty variant: an entry exactly cache_duration old still counts as fresh
CacheFresh_Inclusive(use_cache, c, ct, t) ==
    use_cache /\ ~IsNone(c) /\ ~IsNone(ct) /\ t - ct.time <= cache_duration

\* "if use_cache and self._cache and self._cache_time:
\*      if datetime.now() - self._cache_time < self._cache_duration"
CacheFresh(use_cache, c, ct, t) ==
    use_cache /\ ~IsNone(c) /\ ~IsNone(ct) /\ t - ct.time < cache_duration

\* MarketContextAnalyzer.__init__ and the world around it
CacheStart ==
    /\ now = 0
    /\ market = RisingMarket
    /\ cache = None
    /\ cache_time = None
    /\ refreshes = 0
    /\ call = [t \in callers |-> IdleCall]

\* get_market_context, the cache check
BeginCall ==
    /\ UNCHANGED engine_vars
    /\ \E t \in callers, use_cache \in BOOLEAN :
        LET fresh == CacheFresh(use_cache, cache, cache_time, now)
        IN  /\ call[t].pc \in {"idle", "done"}
            /\ fresh \/ refreshes < MaxRefreshes
            /\ call' = [call EXCEPT ![t] =
                          [pc |-> IF fresh THEN "hit" ELSE "fetch",
                           use_cache |-> use_cache,
                           entry |-> [kind |-> "Entry", cache |-> cache,
                                      cache_time |-> cache_time, now |-> now],
                           seen |-> IF fresh THEN cache_time ELSE None,
                           source |-> None, local |-> None, fetched |-> FALSE,
                           ret |-> None]]
            /\ UNCHANGED <<callers, now, market, cache, cache_time, refreshes>>

\* "return self._cache"
ReturnCached ==
    /\ UNCHANGED engine_vars
    /\ \E t \in callers :
        /\ call[t].pc = "hit"
        /\ call' = [call EXCEPT ![t].pc = "done", ![t].ret = cache]
        /\ UNCHANGED <<callers, now, market, cache, cache_time, refreshes>>

\* the fetches and the computation of the fresh context
FetchAndCompute ==
    /\ UNCHANGED engine_vars
    /\ \E t \in callers :
        /\ call[t].pc = "fetch"
        /\ refreshes < MaxRefreshes
        /\ refreshes' = refreshes + 1
        /\ call' = [call EXCEPT
                      ![t].pc = "store_cache",
                      ![t].fetched = TRUE,
                      ![t].source = market,
                      ![t].local = MkCached(compute_market_context(
                                                market.nifty, market.banknifty, market.vix),
                                            refreshes + 1)]
        /\ UNCHANGED <<callers, now, market, cache, cache_time>>

\* "self._cache = context"
StoreCache ==
    /\ UNCHANGED engine_vars
    /\ \E t \in callers :
        /\ call[t].pc = "store_cache"
        /\ cache' = call[t].local
        /\ call' = [call EXCEPT ![t].pc = "store_time"]
        /\ UNCHANGED <<callers, now, market, cache_time, refreshes>>

\* "self._cache_time = datetime.now()" and "return context"
StoreTime ==
    /\ UNCHANGED engine_vars
    /\ \E t \in callers :
        /\ call[t].pc = "store_time"
        /\ cache_time' = MkCacheTime(now, call[t].local.refresh)
        /\ call' = [call EXCEPT ![t].pc = "done", ![t].ret = call[t].local]
        /\ UNCHANGED <<callers, now, market, cache, refreshes>>

\* the wall clock
Tick ==
    /\ UNCHANGED engine_vars
    /\ \E d \in TimeSteps : now + d <= MaxTime /\ now' = now + d
    /\ UNCHANGED <<callers, market, cache, cache_time, refreshes, call>>

\* the market data changes
MarketMoves ==
    /\ UNCHANGED engine_vars
    /\ \E m \in MarketData \ {market} : market' = m
    /\ UNCHANGED <<callers, now, cache, cache_time, refreshes, call>>

(***************************************************************************)
(* State machine: each public operation is called on a freshly constructed *)
(* component, as the callers and the tests do                              *)
(***************************************************************************)
Init ==
    /\ pc = "idle"
    /\ enable_no_trade \in BOOLEAN
    /\ config = RecommendationEngine_init(
                    MkConfig(sentiment_weight, technical_weight, fundamental_weight))
    /\ market_context = None
    /\ no_trade_signal = None
    /\ inputs = None
    /\ trade_levels = None
    /\ recommendation = None
    /\ result = None
    /\ callers = {1}
    /\ CacheStart

\* NoTradeDetector.check_market_conditions
CheckMarketConditions ==
    /\ UNCHANGED cache_vars
    /\ pc = "idle"
    /\ \E mc \in GateContexts \cup {None} :
          /\ market_context' = mc
          /\ no_trade_signal' = check_market_conditions(enable_no_trade, mc)
    /\ pc' = "checked"
    /\ UNCHANGED <<enable_no_trade, config, inputs, trade_levels, recommendation,
                   result>>

\* RecommendationEngine.calculate_trade_levels
CalculateTradeLevels ==
    /\ UNCHANGED cache_vars
    /\ pc = "idle"
    /\ \E price \in Scaled(LevelPrices), sup \in LevelSets(SupportCands),
          res \in LevelSets(ResistanceCands), atr \in Scaled(AtrValues),
          action \in Actions :
          LET technical == MkTechnical(Scaled(sup), Scaled(res), atr, 50)
          IN  /\ atr = 200 * CENT => ExampleLevels(price, sup, res)
              /\ inputs' = [kind |-> "levels", current_price |-> price,
                            technical |-> technical, action |-> action]
              /\ trade_levels' = calculate_trade_levels(price, technical, action)
    /\ pc' = "levelled"
    /\ UNCHANGED <<enable_no_trade, config, market_context, no_trade_signal,
                   recommendation, result>>

\* RecommendationEngine.__init__ with a configured weight triple, directly or
\* through apply_recommended_weights as in AgentCore._auto_adjust_weights
ConstructEngine ==
    /\ UNCHANGED cache_vars
    /\ pc = "idle"
    /\ \E w \in ConfiguredWeights, recommended \in BOOLEAN :
          /\ inputs' = [kind |-> "config", weights |-> w, recommended |-> recommended]
          /\ config' = RecommendationEngine_init(
                           IF recommended THEN apply_recommended_weights(w) ELSE w)
    /\ pc' = "constructed"
    /\ UNCHANGED <<enable_no_trade, market_context, no_trade_signal, trade_levels,
                   recommendation, result>>

\* RecommendationEngine.generate_recommendation, by the default engine on the
\* full grid of inputs and by a configured engine on the pipeline's scores
GenerateRecommendation ==
    /\ UNCHANGED cache_vars
    /\ pc \in {"idle", "constructed"}
    /\ \E sentiment \in IF pc = "idle" THEN SentimentInputs ELSE ConfiguredSentiments,
          technical \in IF pc = "idle" THEN TechnicalInputs ELSE ConfiguredTechnicals,
          fundamental \in IF pc = "idle" THEN FundamentalInputs
                                         ELSE ConfiguredFundamentals,
          mc \in FusionContexts \cup {None} :
          /\ inputs' = [kind |-> "fusion", sentiment |-> sentiment,
                        technical |-> technical, fundamental |-> fundamental,
                        current_price |-> 100 * PU]
          /\ market_context' = mc
          /\ recommendation' = generate_recommendation(sentiment, technical,
                                                       fundamental, 100 * PU, mc)
    /\ pc' = "recommended"
    /\ UNCHANGED <<enable_no_trade, config, no_trade_signal, trade_levels, result>>

\* MarketContextAnalyzer._calculate_favorability on every combination of its
\* four arguments
CalculateFavorability ==
    /\ UNCHANGED cache_vars
    /\ pc = "idle"
    /\ \E market_state \in MarketStates, vix_level \in VixLevels,
          nifty_trend \in Trends, banknifty_trend \in Trends :
          /\ inputs' = [kind |-> "favorability", market_state |-> market_state,
                        vix_level |-> vix_level, nifty_trend |-> nifty_trend,
                        banknifty_trend |-> banknifty_trend]
          /\ result' = [kind |-> "Favorability",
                        value |-> calculate_favorability(market_state, vix_level,
                                                         nifty_trend, banknifty_trend)]
    /\ pc' = "scored"
    /\ UNCHANGED <<enable_no_trade, config, market_context, no_trade_signal,
                   trade_levels, recommendation>>

\* TechnicalAnalyzer.classify_regime
ClassifyRegime ==
    /\ UNCHANGED cache_vars
    /\ pc = "idle"
    /\ \E current_price \in RegimePrices, ma_50 \in RegimeMa50s,
          ma_200 \in RegimeMa200s, rsi \in RegimeRsis, macd \in RegimeMacds :
          LET indicators == MkRegimeInput(1000000, ma_50, ma_200, rsi, macd)
          IN  /\ inputs' = [kind |-> "regime", current_price |-> current_price,
                            indicators |-> indicators]
              /\ result' = [kind |-> "Regime",
                            regime |-> classify_regime(current_price, indicators),
                            runs |-> 1]
    /\ pc' = "classified"
    /\ UNCHANGED <<enable_no_trade, config, market_context, no_trade_signal,
                   trade_levels, recommendation>>

\* classify_regime called again with the arguments of the call before
ClassifyRegimeAgain ==
    /\ UNCHANGED cache_vars
    /\ pc = "classified"
    /\ result' = [kind |-> "Regime",
                  regime |-> classify_regime(inputs.current_price, inputs.indicators),
                  runs |-> 2, before |-> result.regime]
    /\ pc' = "reclassified"
    /\ UNCHANGED <<enable_no_trade, config, market_context, no_trade_signal, inputs,
                   trade_levels, recommendation>>

\* TechnicalAnalyzer.analyze
Analyze ==
    /\ UNCHANGED cache_vars
    /\ pc = "idle"
    /\ \E shape \in HistoryShapes, base \in HistoryBases, step \in HistorySteps,
          n \in HistoryLengths :
          \E prices \in {History(shape, base, step, n)} :
              /\ inputs' = [kind |-> "history", shape |-> shape, prices |-> prices]
              /\ result' = analyze(prices)
    /\ pc' = "indicated"
    /\ UNCHANGED <<enable_no_trade, config, market_context, no_trade_signal,
                   trade_levels, recommendation>>

\* AgentCore.analyze_stock: market context, gate, fusion, override
AnalyzeStock ==
    /\ UNCHANGED cache_vars
    /\ pc = "idle"
    /\ enable_no_trade
    /\ \E nf \in NiftyFetches, bf \in BankNiftyFetches, vf \in VixFetches,
          ss \in PipelineScores, ts \in PipelineScores, fs \in PipelineScores,
          penalty \in Penalties :
          LET mc == compute_market_context(nf, bf, vf)
              sentiment == MkSentiment(ss, 8000, 5)
              technical == MkTechnical(Scaled({9000}), Scaled({11000}), 200 * CENT, ts)
              fundamental == MkFundamental(fs, 0)
              r == analyze_stock(mc, sentiment, technical, fundamental, 100 * PU, penalty)
          IN  /\ inputs' = [kind |-> "analysis", sentiment |-> sentiment,
                            technical |-> technical, fundamental |-> fundamental,
                            current_price |-> 100 * PU, penalty |-> penalty]
              /\ market_context' = mc
              /\ result' = r
              /\ no_trade_signal' = r.signal
              /\ recommendation' = r.fused
    /\ pc' = "analysed"
    /\ UNCHANGED <<enable_no_trade, config, trade_levels>>

\* ReversalWatchDetector.detect called with indicators of any regime
DetectReversal ==
    /\ UNCHANGED cache_vars
    /\ pc = "idle"
    /\ \E regime \in Regimes, rsi \in ReversalRsis, m \in ReversalMacds,
          fundamental \in ReversalFundamentals, context \in ReversalContexts,
          shape \in VolumeShapes :
          \E technical \in {MkReversalTechnical(regime, rsi, m[1], m[2])},
             prices \in {Volumes(shape)} :
              /\ inputs' = [kind |-> "reversal", technical |-> technical,
                            fundamental |-> fundamental, context |-> context,
                            prices |-> prices]
              /\ result' = detect(technical, fundamental, context, prices)
    /\ pc' = "detected"
    /\ UNCHANGED <<enable_no_trade, config, market_context, no_trade_signal,
                   trade_levels, recommendation>>

\* analyze_stock's reversal step: the regime is the one classify_regime gives
\* the indicators, and detect is called only for the oversold zone
WatchReversal ==
    /\ UNCHANGED cache_vars
    /\ pc = "idle"
    /\ \E current_price \in RegimePrices, rsi \in RegimeRsis \cup ReversalRsis,
          m \in PipelineMacds, fundamental \in PipelineFundamentals,
          context \in PipelineContexts, shape \in VolumeShapes :
          \E indicators \in {MkRegimeInput(1000000, 1000000, 1000000, rsi, m[1])},
             prices \in {Volumes(shape)} :
             \E technical \in {MkReversalTechnical(
                                   classify_regime(current_price, indicators),
                                   rsi, m[1], m[2])} :
              /\ inputs' = [kind |-> "watch", current_price |-> current_price,
                            indicators |-> indicators, technical |-> technical,
                            fundamental |-> fundamental, context |-> context,
                            prices |-> prices]
              /\ result' = IF technical.regime = "oversold-zone"
                           THEN detect(technical, fundamental, context, prices)
                           ELSE None
    /\ pc' = "watched"
    /\ UNCHANGED <<enable_no_trade, config, market_context, no_trade_signal,
                   trade_levels, recommendation>>

Next ==
    \/ ConstructEngine
    \/ CheckMarketConditions
    \/ CalculateTradeLevels
    \/ GenerateRecommendation
    \/ CalculateFavorability
    \/ ClassifyRegime
    \/ ClassifyRegimeAgain
    \/ Analyze
    \/ DetectReversal
    \/ WatchReversal
    \/ AnalyzeStock

Spec == Init /\ [][Next]_vars

\* one analyzer shared by one caller or by two
CacheInit ==
    /\ pc = "idle"
    /\ enable_no_trade = TRUE
    /\ config = RecommendationEngine_init(
                    MkConfig(sentiment_weight, technical_weight, fundamental_weight))
    /\ market_context = None
    /\ no_trade_signal = None
    /\ inputs = None
    /\ trade_levels = None
    /\ recommendation = None
    /\ result = None
    /\ callers \in {{1}, {1, 2}}
    /\ CacheStart

CacheNext ==
    \/ BeginCall
    \/ ReturnCached
    \/ FetchAndCompute
    \/ StoreCache
    \/ StoreTime
    \/ Tick
    \/ MarketMoves

CacheSpec == CacheInit /\ [][CacheNext]_vars

(***************************************************************************)
(* Properties                                                              *)
(***************************************************************************)
GateCalled == pc = "checked"

GateReturned == GateCalled /\ no_trade_signal.kind = "NoTradeSignal"

\* the gate ran its rules: it is enabled and was given a context
GateEvaluated == GateCalled /\ enable_no_trade /\ ~IsNone(market_context)

Analysed == pc = "analysed"

Returned == Analysed /\ result.kind = "AnalysisResult"

\* the gate's verdict on the market context the analysis used
GatedContext ==
    LET sig == check_market_conditions(TRUE, market_context)
    IN  sig.kind = "NoTradeSignal" /\ sig.is_no_trade

\* C1: when the no-trade gate's signal for the market context of an analysis
\* has is_no_trade, the returned recommendation is never BUY: a fused BUY is
\* returned as HOLD, a fused SELL or HOLD keeps its action.
C1_GatedNeverBuy ==
    (Returned /\ GatedContext) =>
        /\ result.recommendation.action # "BUY"
        /\ recommendation.action = "BUY" => result.recommendation.action = "HOLD"
        /\ recommendation.action # "BUY" =>
               result.recommendation.action = recommendation.action

\* a gated analysis whose fused action was BUY came back as HOLD
C1_Witness ==
    /\ Returned /\ GatedContext
    /\ recommendation.action = "BUY"
    /\ result.recommendation.action = "HOLD"

IsBearishHighVix(mc) ==
    mc.market_state = "bearish" /\ mc.vix_level \in {"high", "very_high"}

InReasons(tag, sig) == \E i \in 1..Len(sig.reasons) : sig.reasons[i] = tag

\* C2: with the gate enabled, every context with market_state bearish and
\* vix_level high or very_high yields a signal with is_no_trade and severity
\* high, whatever its other fields; with vix_value > 25 the reasons hold both
\* the bearish+high-VIX reason and the VIX-spike reason.
C2_BearishHighVixBlocks ==
    (GateEvaluated /\ IsBearishHighVix(market_context)) =>
        /\ no_trade_signal.kind = "NoTradeSignal"
        /\ no_trade_signal.is_no_trade
        /\ no_trade_signal.severity = "high"
        /\ market_context.vix_value > 250 =>
               /\ InReasons("bearish_volatile", no_trade_signal)
               /\ InReasons("vix_spike", no_trade_signal)

NoDropNoSpike(mc) ==
    /\ mc.nifty_50dma > 0
    /\ (mc.nifty_price - mc.nifty_50dma) * 100 >= -(3 * mc.nifty_50dma)
    /\ mc.vix_value <= 250

NiftyFetchFailed(mc) == mc.nifty_price = 0 /\ mc.nifty_20dma = 0 /\ mc.nifty_50dma = 0

\* C4: for the context get_market_context returns when the fetch of an index
\* history failed, the gate returns a signal and analyze_stock does not fail.
C4_FetchFailureTolerated ==
    (Analysed /\ NiftyFetchFailed(market_context)) =>
        /\ no_trade_signal.kind = "NoTradeSignal"
        /\ result.kind = "AnalysisResult"

\* C5: with the context absent or the gate disabled, the gate returns
\* is_no_trade = false with severity low and no rule among its reasons,
\* whatever the context holds.
C5_FailsOpen ==
    (GateCalled /\ (~enable_no_trade \/ IsNone(market_context))) =>
        /\ no_trade_signal.kind = "NoTradeSignal"
        /\ ~no_trade_signal.is_no_trade
        /\ no_trade_signal.severity = "low"
        /\ no_trade_signal.reasons \in {<<>>, <<"no_market_context">>}

\* the disabled gate let through a bearish context with a VIX spike and a
\* zero 50-day average
C5_Witness ==
    /\ GateCalled /\ ~enable_no_trade /\ ~IsNone(market_context)
    /\ IsBearishHighVix(market_context)
    /\ market_context.vix_value > 250
    /\ market_context.nifty_50dma = 0
    /\ ~no_trade_signal.is_no_trade
    /\ no_trade_signal.severity = "low"

RuleA(mc) == mc.market_state = "bearish" /\ mc.vix_level \in {"high", "very_high"}

RuleB(mc) == (mc.nifty_price - mc.nifty_50dma) * 100 < -(3 * mc.nifty_50dma)

RuleC(mc) == mc.vix_value > 250

RuleD(mc) ==
    /\ mc.nifty_trend = "bearish" /\ mc.banknifty_trend = "bearish"
    /\ mc.vix_level \in {"moderate", "high", "very_high"}

RuleE(mc) == mc.market_state = "volatile" /\ mc.vix_value > 200

LevelsReturned == pc = "levelled" /\ trade_levels.kind = "TradeLevels"

\* C7: every TradeLevels returned by calculate_trade_levels has
\* stop_loss < ideal_entry < target, risk_reward_ratio >= 2.0,
\* risk_per_trade_percent <= 1.5 and 0 < position_size_percent <= 10.
C7_TradeLevelsInvariant ==
    LevelsReturned =>
        /\ trade_levels.stop_loss < trade_levels.ideal_entry
        /\ trade_levels.ideal_entry < trade_levels.target
        /\ trade_levels.risk_reward_ratio >= 200
        /\ trade_levels.risk_per_trade_percent <= 150
        /\ 0 < trade_levels.position_size_percent
        /\ trade_levels.position_size_percent <= 1000

\* levels with a tight stop, where the position size reaches its cap, and
\* with a target moved to a resistance, where the ratio exceeds 2
C7_Witness ==
    /\ LevelsReturned
    /\ trade_levels.position_size_percent = 1000
    /\ trade_levels.risk_reward_ratio > 200
    /\ inputs.technical.support_levels # {}
    /\ inputs.technical.resistance_levels # {}

\* C8: the levels returned, after rounding to 2 decimals, satisfy
\* target - ideal_entry >= 2 * (ideal_entry - stop_loss).
C8_RoundedRewardTwiceRisk ==
    LevelsReturned =>
        trade_levels.target - trade_levels.ideal_entry
            >= 2 * (trade_levels.ideal_entry - trade_levels.stop_loss)

RecommendationReturned == recommendation.kind = "Recommendation"

MarketStateOf(mc) == IF IsNone(mc) THEN "none" ELSE mc.market_state

\* C9: the action of generate_recommendation is a function of the combined
\* score and the market state: BUY iff score > 0.3, SELL iff score < -0.3,
\* else HOLD; then BUY becomes HOLD in a volatile state below 0.5 and in a
\* bearish state below 0.6, and SELL becomes HOLD in a volatile state above
\* -0.5; nothing else changes the action.
C9_ActionFromScoreAndState ==
    RecommendationReturned =>
        LET cs == recommendation.combined_score
            ms == MarketStateOf(market_context)
            base == IF cs > 300000 THEN "BUY" ELSE IF cs < -300000 THEN "SELL" ELSE "HOLD"
            downgraded ==
                \/ base = "BUY" /\ ms = "volatile" /\ cs < 500000
                \/ base = "BUY" /\ ms = "bearish" /\ cs < 600000
                \/ base = "SELL" /\ ms = "volatile" /\ cs > -500000
        IN  /\ cs = CombinedScore(inputs.sentiment, inputs.technical,
                                  inputs.fundamental, recommendation.runtime_weights)
            /\ recommendation.action = IF downgraded THEN "HOLD" ELSE base

\* a BUY in a bearish market with a score between 0.5 and 0.6 came out HOLD
C9_Witness ==
    /\ pc = "recommended" /\ RecommendationReturned
    /\ MarketStateOf(market_context) = "bearish"
    /\ recommendation.combined_score >= 500000
    /\ recommendation.combined_score < 600000
    /\ recommendation.action = "HOLD"

DirectionOfAction(action) ==
    IF action = "BUY" THEN "bullish" ELSE IF action = "SELL" THEN "bearish" ELSE "neutral"

\* C10 as stated: the signal direction of the confidence computation is
\* bullish iff the returned action is BUY, bearish iff SELL, neutral iff HOLD.
C10_Original ==
    RecommendationReturned =>
        recommendation.signal_direction = DirectionOfAction(recommendation.action)

\* C10 amended: the signal direction corresponds to the action the thresholds
\* give before the market-context downgrade: a returned BUY has direction
\* bullish, a returned SELL bearish, and a returned HOLD has direction neutral
\* unless the market state is volatile or bearish and the HOLD is a downgrade.
C10_DirectionOfThresholdAction ==
    RecommendationReturned =>
        /\ recommendation.signal_direction =
               DirectionOfAction(ThresholdAction(recommendation.combined_score))
        /\ recommendation.action # "HOLD" =>
               recommendation.signal_direction = DirectionOfAction(recommendation.action)
        /\ (recommendation.action = "HOLD"
              /\ MarketStateOf(market_context) \notin {"volatile", "bearish"}) =>
               recommendation.signal_direction = "neutral"

\* a HOLD returned in a volatile market while the agreement was counted
\* against the bullish direction
C10_Witness ==
    /\ pc = "recommended" /\ RecommendationReturned
    /\ MarketStateOf(market_context) = "volatile"
    /\ recommendation.action = "HOLD"
    /\ recommendation.signal_direction = "bullish"

\* the ranges and levels a recommendation carries are those of its action
RangesMatchAction(r) ==
    /\ r.action = "HOLD" =>
           r.entry_price = <<>> /\ r.exit_price = <<>> /\ IsNone(r.trade_levels)
    /\ (r.entry_price # <<>> \/ ~IsNone(r.trade_levels)) => r.action = "BUY"
    /\ r.exit_price # <<>> => r.action = "SELL"

\* C11: every Recommendation with action HOLD, as produced by
\* generate_recommendation and as returned in the result of analyze_stock, has
\* no entry range, no exit range and no trade levels; an entry range and trade
\* levels accompany only BUY and an exit range only SELL.
C11_HoldHasNoRanges ==
    /\ RecommendationReturned => RangesMatchAction(recommendation)
    /\ Returned => RangesMatchAction(result.recommendation)

\* C12: for every market state, known or unknown, for an absent context and
\* for every configured static weight triple, the three weights that
\* generate_recommendation uses and reports sum to 1.0 within 1e-3.
C12_WeightsSumToOne ==
    RecommendationReturned =>
        LET w == recommendation.runtime_weights
        IN  /\ Abs(w.sentiment + w.technical + w.fundamental - 10000) <= 10
            /\ recommendation.sentiment_contribution =
                   inputs.sentiment.sentiment_score * w.sentiment
            /\ recommendation.technical_contribution =
                   inputs.technical.technical_score * w.technical
            /\ recommendation.fundamental_contribution =
                   inputs.fundamental.fundamental_score * w.fundamental

\* an engine whose configured weights sum to 1.0005 reported them unchanged
\* for an unknown market state
C12_Witness ==
    /\ pc = "recommended" /\ RecommendationReturned
    /\ MarketStateOf(market_context) = "sideways"
    /\ recommendation.runtime_weights =
           MkWeights(4002, 4002, 2001, "static-fallback")

InUnit(x, one) == 0 <= x /\ x <= one

\* C13: for scores in [-1,1] and component confidences and market scores in
\* [0,1], the confidence of calculate_confidence and all seven fields of the
\* ConfidenceBreakdown lie in [0,1], and the data quality penalty never
\* exceeds 0.30.
C13_ConfidenceInRange ==
    RecommendationReturned =>
        LET b == recommendation.confidence_breakdown
        IN  /\ InUnit(recommendation.confidence, 100000000)
            /\ InUnit(b.sentiment_confidence, 100)
            /\ InUnit(b.technical_confidence, 100)
            /\ InUnit(b.fundamental_confidence, 100)
            /\ InUnit(b.market_signal_quality, 100)
            /\ InUnit(b.market_favorability, 100)
            /\ InUnit(b.agreement_score, 100)
            /\ InUnit(b.data_quality_penalty, 100)
            /\ b.data_quality_penalty <= 30

\* every penalty applies at once (no context, no sentiment source, a zero
\* sentiment score, all fundamental ratios missing) and the total is 0.30
C13_Witness ==
    /\ pc = "recommended" /\ RecommendationReturned
    /\ IsNone(market_context)
    /\ inputs.sentiment.n_sources = 0 /\ inputs.sentiment.sentiment_score = 0
    /\ inputs.fundamental.missing_metrics >= 2
    /\ recommendation.confidence_breakdown.data_quality_penalty = 30

\* the boost of a full sentiment confidence is capped at 1.0
C13_WitnessBoost ==
    /\ pc = "recommended" /\ RecommendationReturned
    /\ inputs.sentiment.confidence = 10000 /\ inputs.sentiment.n_sources >= 5
    /\ recommendation.confidence_breakdown.sentiment_confidence = 100

\* the confidence computation for the inputs of the state with another
\* sentiment input and another market context
AltConfidence(s2, mc2) ==
    calculate_confidence(s2, inputs.technical, inputs.fundamental,
                         CombinedScore(s2, inputs.technical, inputs.fundamental,
                                       get_dynamic_weights(mc2)),
                         mc2)

FavorabilityOf(mc) == IF IsNone(mc) THEN 0 ELSE mc.market_favorability

\* the alternative input has the agreement base, the component confidences
\* and the market favorability of the state's input
SameConfidenceBase(s2, mc2) ==
    /\ AltConfidence(s2, mc2).breakdown.agreement_score =
           recommendation.confidence_breakdown.agreement_score
    /\ SentimentConf(s2) = SentimentConf(inputs.sentiment)
    /\ FavorabilityOf(mc2) = FavorabilityOf(market_context)

FusedOnGrid == pc = "recommended" /\ RecommendationReturned /\ inputs.kind = "fusion"

\* C14: the confidence is non-increasing in the data quality penalty: of two
\* inputs with the same agreement base, component confidences and market
\* favorability, the one with the larger penalty never gets the larger
\* confidence.
C14_ConfidenceMonotoneInPenalty ==
    FusedOnGrid =>
        \A s2 \in SentimentInputs, mc2 \in {market_context, None} :
            (SameConfidenceBase(s2, mc2)
                /\ AltConfidence(s2, mc2).breakdown.data_quality_penalty >=
                       recommendation.confidence_breakdown.data_quality_penalty)
            => AltConfidence(s2, mc2).confidence <= recommendation.confidence

\* an input with three sentiment sources against the same input with two: the
\* penalty rises by 0.05 and the confidence falls
C14_Witness ==
    /\ FusedOnGrid
    /\ inputs.sentiment = MkSentiment(40, 6000, 3)
    /\ LET s2 == MkSentiment(40, 6000, 2)
       IN  /\ SameConfidenceBase(s2, market_context)
           /\ AltConfidence(s2, market_context).breakdown.data_quality_penalty >
                  recommendation.confidence_breakdown.data_quality_penalty
           /\ AltConfidence(s2, market_context).confidence < recommendation.confidence

\* a call of get_market_context has returned
CallDone(t) == call[t].pc = "done"

\* C15: a cache refresh is atomic for concurrent callers of
\* get_market_context: no caller observes the stored context of one refresh
\* together with the stored timestamp of another refresh.
C15_RefreshAtomic ==
    \A t \in callers :
        (CallDone(t) /\ ~call[t].fetched) => call[t].ret.refresh = call[t].seen.refresh

\* the cache as a call found it was fresh for that call
FoundFresh(c) ==
    /\ c.use_cache
    /\ ~IsNone(c.entry.cache) /\ ~IsNone(c.entry.cache_time)
    /\ c.entry.now - c.entry.cache_time.time < cache_duration

\* C16: with use_cache = true a call less than 15 minutes after the last
\* computation returns the stored context unchanged without fetching; a call
\* once 15 minutes have elapsed, or with use_cache = false, recomputes from
\* freshly fetched data and replaces the stored entry and its timestamp.
C16_CacheHitAndExpiry ==
    (callers = {1} /\ CallDone(1)) =>
        LET c == call[1]
        IN  IF FoundFresh(c)
            THEN /\ ~c.fetched
                 /\ c.ret = c.entry.cache
                 /\ cache = c.entry.cache
                 /\ cache_time = c.entry.cache_time
            ELSE /\ c.fetched
                 /\ c.ret.context = compute_market_context(c.source.nifty,
                                                           c.source.banknifty,
                                                           c.source.vix)
                 /\ cache = c.ret
                 /\ cache_time.refresh = cache.refresh
                 /\ cache_time.time >= c.entry.now
                 /\ ~IsNone(c.entry.cache) => cache.refresh = c.entry.cache.refresh + 1

\* a call with use_cache = true exactly 15 minutes after the last computation
\* fetched again although the market had not moved
C16_Witness ==
    /\ callers = {1} /\ CallDone(1)
    /\ call[1].use_cache /\ ~IsNone(call[1].entry.cache)
    /\ call[1].entry.now - call[1].entry.cache_time.time = cache_duration
    /\ call[1].fetched
    /\ cache.refresh = 2
    /\ cache.context = call[1].entry.cache.context

\* a call 14 minutes after the last computation returned the stored context
\* although the market had moved
C16_WitnessHit ==
    /\ callers = {1} /\ CallDone(1)
    /\ ~IsNone(call[1].entry.cache_time)
    /\ call[1].entry.now - call[1].entry.cache_time.time = 14
    /\ ~call[1].fetched
    /\ call[1].ret = call[1].entry.cache
    /\ call[1].ret.context #
           compute_market_context(market.nifty, market.banknifty, market.vix)

\* the context the provider computed for the analysis
ProvidedContext == Analysed /\ market_context.kind = "MarketContext"

BothTrends(mc, trend) == mc.nifty_trend = trend /\ mc.banknifty_trend = trend

\* C17: in every context the provider returns, the market state is volatile
\* exactly when VIX is at least 20 (VIX level high or very_high), whatever the
\* trends; below 20 it is bullish exactly when both index trends are bullish,
\* bearish exactly when both are bearish and neutral otherwise.  So no provided
\* context combines a bearish or bullish state with a high or very_high VIX.
C17_MarketStateFromVixAndTrends ==
    ProvidedContext =>
        LET mc == market_context
            high == mc.vix_level \in {"high", "very_high"}
        IN  /\ high <=> mc.vix_value >= VIX_MODERATE
            /\ mc.market_state = "volatile" <=> high
            /\ ~high => /\ mc.market_state = "bullish" <=> BothTrends(mc, "bullish")
                        /\ mc.market_state = "bearish" <=> BothTrends(mc, "bearish")
                        /\ mc.market_state = "neutral" <=>
                               ~(BothTrends(mc, "bullish") \/ BothTrends(mc, "bearish"))
            /\ ~(mc.market_state \in {"bearish", "bullish"} /\ high)

\* both trends bearish with VIX exactly 20.0: the provider says volatile
C17_Witness ==
    /\ ProvidedContext
    /\ BothTrends(market_context, "bearish")
    /\ market_context.vix_value = VIX_MODERATE
    /\ market_context.vix_level = "high"
    /\ market_context.market_state = "volatile"

\* both trends bullish with VIX 19.9: the provider says bullish
C17_WitnessBelow ==
    /\ ProvidedContext
    /\ BothTrends(market_context, "bullish")
    /\ market_context.vix_value = VIX_MODERATE - 1
    /\ market_context.market_state = "bullish"

\* _calculate_favorability has returned
FavorabilityReturned == pc = "scored"

C18_WitnessFloor ==
    /\ FavorabilityReturned
    /\ inputs.market_state = "bullish" /\ inputs.vix_level = "very_high"
    /\ result.value = 7000

\* classify_regime has returned
RegimeReturned == pc \in {"classified", "reclassified"}

\* the regime the priority order gives: the first of the four conditions that
\* holds, consolidation when none does
RegimeByPriority(price, ma_20, rsi, macd) ==
    IF rsi < RSI_OVERSOLD /\ macd < 0 /\ price < ma_20 THEN "oversold-zone"
    ELSE IF rsi > RSI_OVERBOUGHT /\ macd > 0 /\ price > ma_20 THEN "overbought-zone"
    ELSE IF price > ma_20 /\ macd > 0 THEN "bullish-trend"
    ELSE IF price < ma_20 /\ macd < 0 THEN "bearish-trend"
    ELSE "consolidation"

C20_WitnessRelaxed ==
    /\ RegimeReturned
    /\ inputs.current_price < inputs.indicators.ma_20
    /\ inputs.indicators.ma_20 > inputs.indicators.ma_50
    /\ inputs.indicators.rsi = 7000
    /\ inputs.indicators.macd < 0
    /\ result.regime = "bearish-trend"

\* analyze has returned or raised
AnalyzeReturned == pc = "indicated"

\* the error analyze raises for a history that is too short
InsufficientData(r) ==
    r.kind = "ValueError"
    /\ r.message = "Need at least 200 price points for complete technical analysis"

\* C19: for a history of at least 200 well-formed points analyze returns
\* indicators with the RSI within [0, 100] and the technical score within
\* [-1, 1]; for a history of fewer than 20 points it fails with the
\* insufficient-data error.
C19_AnalyzeContract ==
    AnalyzeReturned =>
        /\ Len(inputs.prices) >= MinHistory =>
               /\ result.kind = "TechnicalIndicators"
               /\ 0 <= result.rsi /\ result.rsi <= 10000
               /\ -10000 <= result.technical_score /\ result.technical_score <= 10000
        /\ Len(inputs.prices) < 20 => InsufficientData(result)

\* analyze has returned indicators
IndicatorsReturned == AnalyzeReturned /\ result.kind = "TechnicalIndicators"

\* the direction map_regime_to_direction and the exhaustion branches of analyze
\* give a regime
DirectionOfRegime(regime) ==
    IF regime \in {"bullish-trend", "overbought-zone"} THEN "bullish"
    ELSE IF regime \in {"bearish-trend", "oversold-zone"} THEN "bearish"
    ELSE "neutral"

\* C21: the direction analyze reports is the one its regime determines:
\* bullish for bullish-trend and overbought-zone, bearish for bearish-trend and
\* oversold-zone, neutral for consolidation, whatever the technical score is.
C21_DirectionFromRegime ==
    IndicatorsReturned => result.direction = DirectionOfRegime(result.regime)

\* detect has returned
DetectReturned == pc = "detected"

\* the result detect gives when the setup does not apply
NotApplicable(r) ==
    /\ r.kind = "ReversalWatch"
    /\ r.status = "not-applicable"
    /\ r.is_reversal_setup = FALSE
    /\ r.triggers = << >>
    /\ r.confidence = 0

\* a ratio that is known and above the limit
KnownAbove(ratio, limit) == ratio.kind = "float" /\ ratio.v > limit

\* the three ways the applicability checks fail
RegimeFails(technical) == technical.regime # "oversold-zone"

FundamentalsFail(fundamental) ==
    \/ fundamental.fundamental_score < 0
    \/ KnownAbove(fundamental.pe_ratio, 3000)
    \/ KnownAbove(fundamental.pb_ratio, 500)
    \/ KnownAbove(fundamental.debt_to_equity, 200)
    \/ fundamental.revenue_growth.kind = "float" /\ fundamental.revenue_growth.v < -1000

MarketPanics(context) ==
    /\ context.kind = "MarketContext"
    /\ \/ context.vix_value > 300
       \/ context.market_state = "volatile" /\ context.vix_value > 250

C22_WitnessPanic ==
    /\ DetectReturned
    /\ inputs.technical.regime = "oversold-zone"
    /\ ~FundamentalsFail(inputs.fundamental)
    /\ inputs.context.kind = "MarketContext"
    /\ inputs.context.market_state = "volatile" /\ inputs.context.vix_value = 251
    /\ NotApplicable(result)

\* detect has returned a reversal setup
SetupReturned == DetectReturned /\ result.is_reversal_setup = TRUE

\* the triggers of the result that are met
MetCount == TriggersMet(result.triggers)

\* C23: when the applicability checks pass detect returns exactly three
\* triggers; the status is triggered with confidence 0.85 exactly when all
\* three are met, watch-only with confidence 0.65 exactly when two are met, and
\* watch-only with confidence 0.45 exactly when at most one is met.
C23_StatusFromTriggers ==
    SetupReturned =>
        /\ Len(result.triggers) = 3
        /\ (result.status = "triggered" /\ result.confidence = 85) <=> MetCount = 3
        /\ (result.status = "watch-only" /\ result.confidence = 65) <=> MetCount = 2
        /\ (result.status = "watch-only" /\ result.confidence = 45) <=> MetCount <= 1

\* all three triggers met: RSI above 30, a positive histogram, a volume spike
C23_Witness ==
    /\ SetupReturned
    /\ MetCount = 3
    /\ result.status = "triggered"

\* a last volume of exactly 1.5 times the average is no spike: two triggers
C23_WitnessTwo ==
    /\ SetupReturned
    /\ VolumeRatio(inputs.prices) = 150 /\ Len(inputs.prices) >= 20
    /\ MetCount = 2
    /\ result.status = "watch-only" /\ result.confidence = 65

\* the reversal step of analyze_stock has run
WatchReturned == pc = "watched"

\* the reversal step has run with fair fundamentals, no market panic and a
\* volume spike in the price history
FavourableWatch ==
    /\ WatchReturned
    /\ check_fundamental_quality(inputs.fundamental)
    /\ ~check_market_panic(inputs.context)
    /\ Len(inputs.prices) >= 20 /\ VolumeRatio(inputs.prices) > 150

\* C30: the status triggered is reachable in the pipeline: around any run of
\* the reversal step with fair fundamentals, no panic and a volume spike there
\* are indicators to which classify_regime assigns the oversold zone and for
\* which detect, called as analyze_stock calls it, returns triggered with all
\* three triggers met.
C30_TriggeredReachable ==
    FavourableWatch =>
        \E current_price \in RegimePrices, rsi \in RegimeRsis \cup ReversalRsis,
           m \in PipelineMacds :
            LET indicators == MkRegimeInput(1000000, 1000000, 1000000, rsi, m[1])
                regime == classify_regime(current_price, indicators)
                watch == detect(MkReversalTechnical(regime, rsi, m[1], m[2]),
                                inputs.fundamental, inputs.context, inputs.prices)
            IN  /\ regime = "oversold-zone"
                /\ watch.status = "triggered"
                /\ TriggersMet(watch.triggers) = 3

\* in the pipeline the RSI trigger of a setup is never met, and the status is
\* never triggered
PipelineNeverTriggered ==
    WatchReturned /\ result.kind = "ReversalWatch" /\ result.is_reversal_setup =>
        /\ ~result.triggers[1].met
        /\ result.status = "watch-only"

\* the pipeline reaches a setup with the two other triggers met
PipelineWatchOnly ==
    /\ WatchReturned /\ result.kind = "ReversalWatch"
    /\ result.is_reversal_setup
    /\ MetCount = 2

\* the nearest support below the entry, slightly lowered, when there is one
SupportStops(ideal_entry, technical) ==
    LET below == {s \in technical.support_levels : s < ideal_entry}
    IN  IF below = {} THEN {} ELSE {Times(Max(below), 995, 1000)}

\* max(idealEntry - 1.5 x ATR, 0.995 x nearest support below entry,
\* 0.92 x idealEntry)
ClaimedStop(ideal_entry, technical) ==
    Max({ideal_entry - Times(technical.atr, 15, 10), Times(ideal_entry, 92, 100)}
        \cup SupportStops(ideal_entry, technical))

\* the same maximum with 0.95 x idealEntry in the place of the ATR stop when
\* the ATR is not positive
FallbackStop(ideal_entry, technical) ==
    Max({IF technical.atr > 0 THEN ideal_entry - Times(technical.atr, 15, 10)
         ELSE Times(ideal_entry, 95, 100),
         Times(ideal_entry, 92, 100)}
        \cup SupportStops(ideal_entry, technical))

\* the entry of the returned levels before its rounding
EntryOfInputs == IdealEntry(inputs.current_price, inputs.technical)

\* C24 as stated: for every BUY input the stop loss is the maximum of
\* idealEntry - 1.5 x ATR, 0.995 x the nearest support below the entry and
\* 0.92 x idealEntry, rounded to 2 decimals.
C24_Original ==
    LevelsReturned =>
        trade_levels.stop_loss = Round2(ClaimedStop(EntryOfInputs, inputs.technical))

\* C24: for every BUY input the stop loss is the maximum of the ATR stop
\* (idealEntry - 1.5 x ATR when the ATR is positive, 0.95 x idealEntry when it
\* is not), 0.995 x the nearest support below the entry and 0.92 x idealEntry,
\* rounded to 2 decimals; so the stop is never more than 8% below the entry.
C24_StopLossIsMax ==
    LevelsReturned =>
        /\ trade_levels.stop_loss
               = Round2(FallbackStop(EntryOfInputs, inputs.technical))
        /\ trade_levels.stop_loss >= Round2(Times(EntryOfInputs, 92, 100))

\* the 8% floor decides: an ATR of 10.00 at an entry of 98.00
C24_Witness ==
    /\ LevelsReturned
    /\ inputs.technical.atr > 0
    /\ SupportStops(EntryOfInputs, inputs.technical) = {}
    /\ EntryOfInputs - Times(inputs.technical.atr, 15, 10) < Times(EntryOfInputs, 92, 100)
    /\ trade_levels.stop_loss = Round2(Times(EntryOfInputs, 92, 100))

\* the support stop decides
C24_WitnessSupport ==
    /\ LevelsReturned
    /\ inputs.technical.atr > 0
    /\ SupportStops(EntryOfInputs, inputs.technical) # {}
    /\ trade_levels.stop_loss
           = Round2(Max(SupportStops(EntryOfInputs, inputs.technical)))
    /\ trade_levels.stop_loss > Round2(EntryOfInputs - Times(inputs.technical.atr, 15, 10))

\* an ATR of zero: the stop is 5% below the entry, not the entry itself
C24_WitnessZeroAtr ==
    /\ LevelsReturned
    /\ inputs.technical.atr = 0
    /\ trade_levels.stop_loss = Round2(Times(EntryOfInputs, 95, 100))
    /\ trade_levels.stop_loss < trade_levels.ideal_entry

\* calculate_trade_levels has returned for the worked example: price 100.00,
\* support levels [90.00], resistance levels [110.00], ATR 2.00, action BUY
ExampleReturned ==
    /\ pc = "levelled"
    /\ inputs.current_price = 10000 * CENT
    /\ inputs.technical.support_levels = {9000 * CENT}
    /\ inputs.technical.resistance_levels = {11000 * CENT}
    /\ inputs.technical.atr = 200 * CENT
    /\ inputs.action = "BUY"

\* x is within half a unit (50 cents) of y
About(x, y) == y - 50 <= x /\ x <= y + 50

\* C25 as stated: for the worked example the calculator yields an ideal entry
\* of about 98.0, a stop loss of about 95.0, a target of at least 104 and a
\* reward-to-risk ratio of at least 2.0.
C25_Original ==
    ExampleReturned =>
        /\ trade_levels.kind = "TradeLevels"
        /\ About(trade_levels.ideal_entry, 9800)
        /\ About(trade_levels.stop_loss, 9500)
        /\ trade_levels.target >= 10400
        /\ trade_levels.risk_reward_ratio >= 200

\* C25: for the worked example the support at 90 lies below the price, so the
\* calculator yields an ideal entry of 90.45, a stop loss of 89.55, a target of
\* 109.45 (at least 104) and a reward-to-risk ratio of 21.11 (at least 2.0).
C25_ExampleLevels ==
    ExampleReturned =>
        /\ trade_levels.kind = "TradeLevels"
        /\ trade_levels.ideal_entry = 9045
        /\ trade_levels.stop_loss = 8955
        /\ trade_levels.target = 10945
        /\ trade_levels.target >= 10400
        /\ trade_levels.risk_reward_ratio = 2111
        /\ trade_levels.risk_reward_ratio >= 200

\* the worked example has been computed
C25_Witness ==
    /\ ExampleReturned
    /\ trade_levels.kind = "TradeLevels"
    /\ trade_levels.ideal_entry < 9800 - 50

\* calculate_trade_levels has returned or raised
LevelsCalled == pc = "levelled"

\* C26: calculate_trade_levels called with an action other than BUY (SELL or
\* HOLD) fails with the not-supported error and returns no TradeLevels,
\* whatever the price and the indicators are.
C26_OnlyBuySupported ==
    LevelsCalled /\ inputs.action # "BUY" =>
        /\ trade_levels.kind = "ValueError"
        /\ trade_levels
               = ValueError("Trade levels currently only supported for BUY recommendations")

\* a SELL for inputs on which a BUY would get levels
C26_Witness ==
    /\ LevelsCalled
    /\ inputs.action = "SELL"
    /\ calculate_trade_levels(inputs.current_price, inputs.technical, "BUY").kind
           = "TradeLevels"
    /\ trade_levels.kind = "ValueError"

\* a HOLD is refused as well
C26_WitnessHold ==
    /\ LevelsCalled
    /\ inputs.action = "HOLD"
    /\ trade_levels.kind = "ValueError"

\* analyze_stock has run on a context the provider computed as volatile
ProviderVolatile ==
    /\ pc = "analysed"
    /\ market_context.kind = "MarketContext"
    /\ market_context.market_state = "volatile"

\* C27: for every market context the provider produces with the market state
\* volatile, check_market_conditions returns a signal with is_no_trade set:
\* the provider never calls the market volatile while the gate lets new
\* entries through.
C27_VolatileIsNoTrade ==
    ProviderVolatile =>
        /\ no_trade_signal.kind = "NoTradeSignal"
        /\ no_trade_signal.is_no_trade

\* with the VIX above 20 and a Nifty average to divide by, a volatile context
\* of the provider is always gated
VolatileAboveTwentyIsNoTrade ==
    ProviderVolatile /\ market_context.vix_value > 200 /\ market_context.nifty_50dma # 0 =>
        /\ no_trade_signal.kind = "NoTradeSignal"
        /\ no_trade_signal.is_no_trade

\* a VIX of exactly 20.0 with rising indices: volatile, and not gated
VolatileNotGated ==
    /\ ProviderVolatile
    /\ market_context.vix_value = 200
    /\ no_trade_signal.kind = "NoTradeSignal"
    /\ ~no_trade_signal.is_no_trade

\* generate_recommendation has returned or raised
RecommendationCalled == pc = "recommended"

\* the action the fusion reaches for the inputs of the call, before any level
\* is computed
FusedAction ==
    LET weights == get_dynamic_weights(market_context)
        combined_score == CombinedScore(inputs.sentiment, inputs.technical,
                                        inputs.fundamental, weights)
        action0 == ThresholdAction(combined_score)
    IN  IF IsNone(market_context) THEN action0
        ELSE adjust_for_market_context(action0, combined_score, market_context)

\* C28: for every input whose fused action is BUY, with a positive price and
\* an ATR that is not negative, generate_recommendation returns a
\* Recommendation whose rounded levels pass the TradeLevels validation: a BUY
\* is never turned into an exception.
C28_BuyAlwaysRecommended ==
    RecommendationCalled /\ FusedAction = "BUY"
        /\ inputs.current_price > 0 /\ inputs.technical.atr >= 0 =>
        /\ recommendation.kind = "Recommendation"
        /\ recommendation.action = "BUY"
        /\ TradeLevelsValid(recommendation.trade_levels)

\* when the unrounded stop is at least a cent below the unrounded entry the
\* BUY is returned with valid levels
BuyWithCentOfRisk ==
    RecommendationCalled /\ FusedAction = "BUY"
        /\ EntryOfInputs - StopLoss(EntryOfInputs, inputs.technical) >= CENT =>
        /\ recommendation.kind = "Recommendation"
        /\ TradeLevelsValid(recommendation.trade_levels)

\* a BUY whose levels collapse in the rounding is raised as an error
BuyRaised ==
    /\ RecommendationCalled
    /\ FusedAction = "BUY"
    /\ recommendation.kind = "ValueError"

\* generate_recommendation has returned a BUY
BuyReturned ==
    /\ RecommendationCalled
    /\ recommendation.kind = "Recommendation"
    /\ recommendation.action = "BUY"

\* C29: for every BUY Recommendation of generate_recommendation the ideal
\* entry of the trade levels lies within the suggested entry range of the same
\* Recommendation: entry_price_low <= idealEntry <= entry_price_high.
C29_EntryWithinRange ==
    BuyReturned =>
        /\ recommendation.entry_price[1] <= recommendation.trade_levels.ideal_entry * CENT
        /\ recommendation.trade_levels.ideal_entry * CENT <= recommendation.entry_price[2]

\* with no support within 1% below the price the entry is within the range
EntryWithinRangeFarSupport ==
    BuyReturned /\ (\A x \in inputs.technical.support_levels :
                        x >= inputs.current_price
                        \/ x <= Times(inputs.current_price, 99, 100)) =>
        /\ recommendation.entry_price[1] <= recommendation.trade_levels.ideal_entry * CENT
        /\ recommendation.trade_levels.ideal_entry * CENT <= recommendation.entry_price[2]

\* a support at 99.50 under a price of 100.00: the entry, capped at 99.00, is
\* below the low end of the range
EntryBelowRange ==
    /\ BuyReturned
    /\ recommendation.trade_levels.ideal_entry * CENT < recommendation.entry_price[1]

====
